---- MODULE Spec2Model ----
(***************************************************************************)
(* Identity resolution and authorization core of ferriskey: the soft-mode  *)
(* auth middleware, the RequiredIdentity extractor, the device middleware, *)
(* the device-profile provisioner and the handlers behind them, run as     *)
(* concurrent requests over one shared persistence layer.  Every await of  *)
(* a persistence call that reads or writes mutable rows is one step.       *)
(***************************************************************************)
EXTENDS Naturals, Integers, Sequences, FiniteSets, TLC

\* Number of requests in flight at once.
NumReq == 2
\* How many times a handler may run the RequiredIdentity extractor.
MaxExtract == 2

Reqs == 1..NumReq

\* Option<T>: None is the empty sequence, Some(x) the one-element sequence.
None == <<>>
Some(x) == <<x>>

VARIABLES
    users,             \* user rows
    profiles,          \* device_profiles rows
    nextId,            \* source of fresh ids (Uuid::new_v7)
    prompts,           \* prompt rows
    reactions,         \* food_reaction rows
    symptoms,          \* food_reaction_symptoms rows
    analyses,          \* food_analysis_requests rows
    files,             \* stored_objects rows
    req,               \* each request's route, headers and path
    pc,                \* each request's position
    ext,               \* request extensions: Identity and DeviceContext
    resp,              \* the response, once decided
    loc,               \* locals of the running function
    hist               \* what the request has done so far

vars == <<users, profiles, nextId, prompts, reactions, symptoms, analyses, files,
          req, pc, ext, resp, loc, hist>>

store == <<users, profiles, nextId>>
data == <<prompts, reactions, symptoms, analyses, files>>

----------------------------------------------------------------------------
(* Realms, users and tokens the requests can name *)

Realms == { [id |-> "rid_master", name |-> "master"],
            [id |-> "rid_acme", name |-> "acme"] }

RealmNames == {"master", "acme", "ghost"}

\* RealmRepository.get_by_name: Option<Realm>
get_by_name(name) ==
    IF \E rl \in Realms : rl.name = name
    THEN Some(CHOOSE rl \in Realms : rl.name = name)
    ELSE None

\* The master realm holds the users admin and alice; acme holds no user yet.
\* A username is a chosen name or the digest of a device id.
Named(name) == <<"name", name>>

InitUsers == { [id |-> 1, realm_id |-> "rid_master", username |-> Named("admin")],
               [id |-> 2, realm_id |-> "rid_master", username |-> Named("alice")] }

AliceId == (CHOOSE u \in InitUsers : u.username = Named("alice")).id

\* A bearer token is its '.'-separated segments; the empty token is one empty segment.
GoodToken == <<"hdr", "claims", "goodsig">>
BadSigToken == <<"hdr", "claims", "badsig">>
BadB64Token == <<"hdr", "badb64", "goodsig">>
BadUtf8Token == <<"hdr", "badutf8", "goodsig">>
BadJsonToken == <<"hdr", "badjson", "goodsig">>
TwoSegToken == <<"hdr", "claims">>
FourSegToken == <<"hdr", "claims", "goodsig", "extra">>
EmptyToken == <<"">>

NoHeader == [present |-> FALSE, scheme |-> "", token |-> <<>>]
Bearer(t) == [present |-> TRUE, scheme |-> "Bearer ", token |-> t]
Basic(t) == [present |-> TRUE, scheme |-> "Basic ", token |-> t]

AuthHeaders == { NoHeader, Bearer(GoodToken), Bearer(BadSigToken),
                 Bearer(BadB64Token), Bearer(TwoSegToken) }

\* Every shape of Authorization header the middleware tells apart
AllAuthHeaders ==
    AuthHeaders \cup { Bearer(BadUtf8Token), Bearer(BadJsonToken), Bearer(FourSegToken),
                       Bearer(EmptyToken), Basic(GoodToken) }

DeviceHeaders == { None, Some(""), Some("d1") }

Permissions == {"ManageRealm", "ManageWebhooks", "ViewWebhooks", "ViewUsers"}
PermSets == { {}, {"ViewWebhooks"}, {"ManageWebhooks"} }

----------------------------------------------------------------------------
(* Pure helpers *)

\* general_purpose::URL_SAFE_NO_PAD.decode(payload)
base64_decode(seg) == IF seg = "badb64" THEN None ELSE Some(seg)
\* String::from_utf8(decoded)
from_utf8(bytes) == IF bytes = "badutf8" THEN None ELSE Some(bytes)
\* serde_json::from_str::<JwtClaim>(payload_str)
parse_claims(str) == IF str = "claims" THEN Some([sub |-> AliceId]) ELSE None

\* AuthService.authorize_request(claims, token): the verified identity, or an error
authorize_request(claims, token) ==
    IF token[Len(token)] = "goodsig" /\ \E u \in InitUsers : u.id = claims.sub
    THEN Some(claims.sub)
    ELSE None

\* The payload segment of a token decoded to claims, as the auth middleware does
decode_payload(payload) ==
    LET decoded == base64_decode(payload)
        str == IF decoded = None THEN None ELSE from_utf8(decoded[1])
    IN IF str = None THEN None ELSE parse_claims(str[1])

\* The same without the call to authorize_request
BearerIdentityUnverified(h) ==
    IF h.present /\ h.scheme = "Bearer " /\ h.token # EmptyToken
    THEN IF Len(h.token) = 3
         THEN LET claims == decode_payload(h.token[2])
              IN IF claims = None THEN None ELSE Some(claims[1].sub)
         ELSE None
    ELSE None

\* auth: the Identity the middleware inserts for an Authorization header, if any
BearerIdentity(h) ==
    IF h.present /\ h.scheme = "Bearer " /\ h.token # EmptyToken
    THEN IF Len(h.token) = 3
         THEN LET claims == decode_payload(h.token[2])
              IN IF claims = None THEN None
                 ELSE authorize_request(claims[1], h.token)
         ELSE None
    ELSE None

\* extract_realm_from_path: the segment after the first "realms" segment
extract_realm_from_path(path) ==
    LET idxs == { i \in 1..Len(path) : path[i] = "realms" }
    IN IF idxs = {} THEN None
       ELSE LET realm_idx == CHOOSE i \in idxs : \A j \in idxs : i <= j
            IN IF realm_idx + 1 <= Len(path) THEN Some(path[realm_idx + 1]) ELSE None

\* hash_device_id: first 16 bytes of SHA-256, hex encoded
hash_device_id(device_id) == <<"sha256_16", device_id>>
generate_anonymous_username(device_id) == hash_device_id(device_id)

DefaultDevice == "default_device"

ProfilesForWrongColumn(realm_id, device_id) ==
    { p \in profiles : p.realm_id = realm_id /\ p.device_id = realm_id }

ProfilesForAnyRealm(realm_id, device_id) ==
    { p \in profiles : p.device_id = device_id }

\* get_by_realm_and_device: the rows matching (realm_id, device_id)
ProfilesFor(realm_id, device_id) ==
    { p \in profiles : p.realm_id = realm_id /\ p.device_id = device_id }

\* DeviceProfile::new
NewDeviceProfile(id, realm_id, device_id, user_id, created_by) ==
    [id |-> id, realm_id |-> realm_id, device_id |-> device_id,
     user_id |-> user_id, created_by |-> created_by]

\* The insert meets a row with the same natural key
UserKeyTaken(realm_id, username) ==
    \E u \in users : u.realm_id = realm_id /\ u.username = username

ProfileKeyTaken(realm_id, device_id) == ProfilesFor(realm_id, device_id) # {}

\* Permissions::has_one_of_permissions
has_one_of_permissions(perms, wanted) == perms \cap wanted # {}

can_create_prompt(perms) ==
    has_one_of_permissions(perms, {"ManageRealm", "ManageWebhooks"})

\* Variants of the whitelist tests
can_view_prompt_view_only(perms) == has_one_of_permissions(perms, {"ViewWebhooks"})

can_update_prompt_no_extras(perms) ==
    has_one_of_permissions(perms, {"ManageRealm", "ManageWebhooks"}) /\ "ViewUsers" \notin perms

can_delete_prompt_as_read(perms) ==
    has_one_of_permissions(perms, {"ManageRealm", "ManageWebhooks", "ViewWebhooks"})

can_analyze_food_as_write(perms) ==
    has_one_of_permissions(perms, {"ManageRealm", "ManageWebhooks"})

can_view_prompt(perms) ==
    has_one_of_permissions(perms, {"ManageRealm", "ManageWebhooks", "ViewWebhooks"})

can_update_prompt(perms) ==
    has_one_of_permissions(perms, {"ManageRealm", "ManageWebhooks"})

can_delete_prompt(perms) ==
    has_one_of_permissions(perms, {"ManageRealm", "ManageWebhooks"})

can_analyze_food(perms) ==
    has_one_of_permissions(perms, {"ManageRealm", "ManageWebhooks", "ViewWebhooks"})

can_view_analysis(perms) == can_analyze_food(perms)

\* Prompt::new
NewPrompt(id, realm_id, created_by) ==
    [id |-> id, realm_id |-> realm_id, name |-> "n0", is_active |-> TRUE,
     is_deleted |-> FALSE, created_by |-> created_by, updated_by |-> created_by,
     deleted_by |-> None]

\* Prompt rows present before the requests arrive
InitPrompts == { NewPrompt(90, "rid_master", 1) }

----------------------------------------------------------------------------
(* Routes: the layers a request crosses, outermost first, then the handler *)

Pipeline(route) ==
    CASE route = "reaction" -> <<"dm", "auth", "ri", "body">>
      [] route = "item"     -> <<"dm", "auth", "body">>
      [] route = "prompt"   -> <<"auth", "ri", "body">>
      [] route = "probe"    -> <<"auth", "ri", "body">>
      [] route = "svc"      -> <<"goc_lookup">>
      [] route = "psvc"     -> <<"body">>
      [] route = "file"     -> <<"body">>
      [] route = "jwt"      -> <<"body">>
      [] route = "query"    -> <<"body">>
      [] route = "device"   -> <<"auth", "body">>
      [] route = "analyze"  -> <<"dm", "auth", "body">>
      [] route = "history"  -> <<"dm", "auth", "body">>

After(route, stage) ==
    LET p == Pipeline(route)
        i == CHOOSE k \in 1..Len(p) : p[k] = stage
    IN IF i < Len(p) THEN p[i + 1] ELSE "done"

RoutePath(route, realm_name) ==
    CASE route = "reaction" -> <<"", "realms", realm_name, "food-reactions">>
      [] route = "item"     -> <<"", "realms", realm_name, "food-analysis", "items", "i1">>
      [] route = "prompt"   -> <<"", "realms", realm_name, "prompts">>
      [] route = "analyze"  -> <<"", "realms", realm_name, "food-analysis", "text">>
      [] route = "history"  -> <<"", "realms", realm_name, "food-analysis", "history">>
      [] OTHER              -> <<"", "realms", realm_name>>

\* Path(realm_name): the route's {realm_name} parameter
PathRealm(path) == path[3]

ProbePaths == { <<"", "config">>, <<"", "api", "realms">> }

HttpRoutes == {"prompt", "reaction", "item"}

HttpInputs ==
    { [route |-> rt, auth |-> a, dev |-> d, path |-> RoutePath(rt, rn)] :
        rt \in HttpRoutes, a \in AuthHeaders, d \in DeviceHeaders, rn \in RealmNames }
    \cup
    { [route |-> "probe", auth |-> a, dev |-> d, path |-> p] :
        a \in AuthHeaders, d \in DeviceHeaders, p \in ProbePaths }

\* get_or_create_device_profile called with a realm, a device id and alice's identity
SvcInputs ==
    { [route |-> "svc", auth |-> NoHeader, dev |-> Some("d1"),
       path |-> RoutePath("svc", rl.name)] : rl \in Realms }

Inputs == HttpInputs \cup SvcInputs

\* Requests to a RequiredIdentity endpoint under every shape of Authorization header
HeaderInputs ==
    { [route |-> "probe", auth |-> a, dev |-> d, path |-> p] :
        a \in AllAuthHeaders, d \in DeviceHeaders, p \in ProbePaths }

----------------------------------------------------------------------------
(* Initial state: the requests have arrived, nothing has run *)

NoLoc == [realm_id |-> "", device_id |-> "", user |-> 0, admin |-> 0]

NoHist == [ops |-> {}, after |-> {}, extractions |-> 0, riResult |-> None,
           authOut |-> "pending", profile |-> None, policy |-> "unchecked",
           policyFor |-> None, touched |-> FALSE]

NoResp == [status |-> "pending", by |-> ""]

InitWith(inputs) ==
    /\ users = InitUsers
    /\ profiles = {}
    /\ nextId = 3
    /\ prompts = {}
    /\ reactions = {}
    /\ symptoms = {}
    /\ analyses = {}
    /\ files = {}
    /\ req \in [Reqs -> inputs]
    /\ pc = [r \in Reqs |-> Pipeline(req[r].route)[1]]
    /\ ext = [r \in Reqs |->
                [identity |-> IF req[r].route = "svc" THEN Some(AliceId) ELSE None,
                 device |-> None]]
    /\ resp = [r \in Reqs |-> NoResp]
    /\ loc = [r \in Reqs |-> NoLoc]
    /\ hist = [r \in Reqs |-> NoHist]

Init == InitWith(Inputs)

\* The requests as they arrive: nothing has run
InitRequests(inputs) ==
    /\ req \in [Reqs -> inputs]
    /\ pc = [r \in Reqs |-> Pipeline(req[r].route)[1]]
    /\ ext = [r \in Reqs |->
                [identity |-> IF "caller" \in DOMAIN req[r] THEN Some(req[r].caller)
                              ELSE None,
                 device |-> None]]
    /\ resp = [r \in Reqs |-> NoResp]
    /\ loc = [r \in Reqs |-> NoLoc]
    /\ hist = [r \in Reqs |-> NoHist]

\* Calls of the prompt and food-analysis services by alice under each permission set,
\* under each lookup failure, and to realms other than master
PolicyOps == {"get_prompts", "get_prompt", "create_prompt", "update_prompt",
              "delete_prompt", "analyze_food", "get_analysis_history"}

PolicyCall(op, perms, fault, realm_name) ==
    [route |-> "psvc", op |-> op, perms |-> perms, fault |-> fault, caller |-> AliceId,
     prompt_id |-> IF op = "analyze_food" THEN None ELSE Some(90),
     include_deleted |-> FALSE, auth |-> NoHeader, dev |-> None,
     path |-> RoutePath("psvc", realm_name)]

PolicyInputs ==
    { PolicyCall(op, perms, "none", "master") : op \in PolicyOps, perms \in SUBSET Permissions }
    \cup { PolicyCall(op, {"ManageRealm"}, f, "master") :
              op \in PolicyOps, f \in {"user", "permissions"} }
    \cup { PolicyCall(op, {"ManageRealm"}, "none", rn) :
              op \in PolicyOps, rn \in {"acme", "ghost"} }

InitPolicy ==
    /\ users = InitUsers
    /\ profiles = {}
    /\ nextId = 3
    /\ prompts = InitPrompts
    /\ reactions = {}
    /\ symptoms = {}
    /\ analyses = {}
    /\ files = {}
    /\ InitRequests(PolicyInputs)

\* File requests of alice (realm master) and bob (realm acme), past the auth layer
FileUsers == InitUsers \cup { [id |-> 3, realm_id |-> "rid_acme", username |-> Named("bob")] }

InitFiles == { [id |-> "f_master", realm_id |-> "rid_master", uploaded_by |-> 2],
               [id |-> "f_acme", realm_id |-> "rid_acme", uploaded_by |-> 3] }

FileOps == {"complete_upload", "get_download_url", "delete_file"}

FileInputs ==
    { [route |-> "file", op |-> op, caller |-> u.id, file_id |-> f,
       auth |-> NoHeader, dev |-> None, path |-> RoutePath("file", rn)] :
        op \in FileOps, u \in { v \in FileUsers : v.username # Named("admin") },
        f \in {"f_master", "f_acme", "f_none"}, rn \in RealmNames }

InitFileSpec ==
    /\ users = FileUsers
    /\ profiles = {}
    /\ nextId = 4
    /\ prompts = {}
    /\ reactions = {}
    /\ symptoms = {}
    /\ analyses = {}
    /\ files = InitFiles
    /\ InitRequests(FileInputs)

\* Requests to a handler that takes the Jwt extractor
JwtInputs ==
    { [route |-> "jwt", auth |-> a, dev |-> None, path |-> RoutePath("jwt", "master")] :
        a \in AllAuthHeaders }

\* GET /realms/{realm_name}/devices/{device_id}
DeviceInputs ==
    { [route |-> "device", auth |-> a, dev |-> d,
       path |-> <<"", "realms", rn, "devices", pd>>] :
        a \in AuthHeaders, d \in DeviceHeaders, rn \in RealmNames, pd \in {"d1", "d2"} }

\* Requests to the food-analysis endpoints
AnalysisRoutes == {"analyze", "history"}

AnalysisInputs ==
    { [route |-> rt, auth |-> a, dev |-> d, path |-> RoutePath(rt, rn)] :
        rt \in AnalysisRoutes, a \in AuthHeaders, d \in DeviceHeaders, rn \in RealmNames }

InitAnalysis ==
    /\ users = InitUsers
    /\ profiles = {}
    /\ nextId = 3
    /\ prompts = InitPrompts
    /\ reactions = {}
    /\ symptoms = {}
    /\ analyses = {}
    /\ files = {}
    /\ InitRequests(AnalysisInputs)

----------------------------------------------------------------------------
(* Steps shared by the operations *)

\* The request ends with an error response decided by stage `by`.
Fail(r, status, by) ==
    /\ resp' = [resp EXCEPT ![r] = [status |-> status, by |-> by]]
    /\ pc' = [pc EXCEPT ![r] = "done"]

Did(r, op) == hist' = [hist EXCEPT ![r].ops = @ \cup {op}]

Finished == { q \in Reqs : pc[q] = "done" }

\* UserRepository.create_user for the anonymous user of loc[r].device_id
InsertUser(r) ==
    /\ users' = users \cup { [id |-> nextId, realm_id |-> loc[r].realm_id,
                             username |-> generate_anonymous_username(loc[r].device_id)] }
    /\ nextId' = nextId + 1
    /\ loc' = [loc EXCEPT ![r].user = nextId]

\* DeviceProfileRepository.create
InsertProfile(r, created_by) ==
    /\ profiles' = profiles \cup
          { NewDeviceProfile(nextId, loc[r].realm_id, loc[r].device_id,
                             loc[r].user, created_by) }
    /\ nextId' = nextId + 1

\* device_middleware: req.extensions_mut().insert(DeviceContext{..}); next.run(req)
Publish(r, profile) ==
    /\ ext' = [ext EXCEPT ![r].device =
                  Some([device_id |-> profile.device_id, user_id |-> profile.user_id])]
    /\ pc' = [pc EXCEPT ![r] = After(req[r].route, "dm")]

----------------------------------------------------------------------------
(* auth: the soft-mode middleware *)

auth(r) ==
    /\ pc[r] = "auth"
    /\ LET identity == BearerIdentity(req[r].auth)
       IN /\ ext' = [ext EXCEPT ![r].identity =
                        IF identity # None THEN identity ELSE @]
          /\ hist' = [hist EXCEPT ![r].authOut =
                        IF identity # None THEN "attached" ELSE "nothing"]
    /\ pc' = [pc EXCEPT ![r] = After(req[r].route, "auth")]
    /\ UNCHANGED <<store, data, req, resp, loc>>

----------------------------------------------------------------------------
(* get_or_create_device_profile(realm, device_id, identity) *)

GocLookup(r) ==
    /\ pc[r] = "goc_lookup"
    /\ LET realm_id == IF req[r].route = "svc"
                       THEN get_by_name(PathRealm(req[r].path))[1].id
                       ELSE loc[r].realm_id
           device_id == IF req[r].route = "svc" THEN req[r].dev[1] ELSE loc[r].device_id
           found == ProfilesFor(realm_id, device_id)
       IN /\ loc' = [loc EXCEPT ![r].realm_id = realm_id, ![r].device_id = device_id]
          /\ IF found = {}
             THEN /\ pc' = [pc EXCEPT ![r] = "goc_create_user"]
                  /\ hist' = [hist EXCEPT ![r].ops = @ \cup {"goc:profile_get"},
                                          ![r].after = Finished]
                  /\ UNCHANGED <<ext, resp>>
             ELSE \E p \in found :
                    /\ hist' = [hist EXCEPT ![r].ops = @ \cup {"goc:profile_get"},
                                            ![r].after = Finished,
                                            ![r].profile = Some(p.id)]
                    /\ IF req[r].route = "svc"
                       THEN /\ resp' = [resp EXCEPT ![r] = [status |-> "200", by |-> "goc"]]
                            /\ pc' = [pc EXCEPT ![r] = "done"]
                            /\ UNCHANGED ext
                       ELSE Publish(r, p) /\ UNCHANGED resp
    /\ UNCHANGED <<store, data, req>>

GocCreateUser(r) ==
    /\ pc[r] = "goc_create_user"
    /\ \/ /\ InsertUser(r)
          /\ Did(r, "goc:user_create")
          /\ pc' = [pc EXCEPT ![r] = "goc_create_profile"]
          /\ UNCHANGED <<profiles, resp>>
       \/ /\ UserKeyTaken(loc[r].realm_id, generate_anonymous_username(loc[r].device_id))
          /\ Fail(r, "500", IF req[r].route = "svc" THEN "goc" ELSE "dm")
          /\ UNCHANGED <<store, loc, hist>>
    /\ UNCHANGED <<data, req, ext>>

GocCreateProfile(r) ==
    /\ pc[r] = "goc_create_profile"
    /\ \/ /\ InsertProfile(r, Some(ext[r].identity[1]))
          /\ hist' = [hist EXCEPT ![r].ops = @ \cup {"goc:profile_create"},
                                  ![r].profile = Some(nextId)]
          /\ IF req[r].route = "svc"
             THEN /\ resp' = [resp EXCEPT ![r] = [status |-> "200", by |-> "goc"]]
                  /\ pc' = [pc EXCEPT ![r] = "done"]
                  /\ UNCHANGED ext
             ELSE /\ Publish(r, [device_id |-> loc[r].device_id, user_id |-> loc[r].user])
                  /\ UNCHANGED resp
          /\ UNCHANGED users
       \/ /\ ProfileKeyTaken(loc[r].realm_id, loc[r].device_id)
          /\ Fail(r, "500", IF req[r].route = "svc" THEN "goc" ELSE "dm")
          /\ UNCHANGED <<store, ext, hist>>
    /\ UNCHANGED <<data, req, loc>>

----------------------------------------------------------------------------
(* device_middleware *)

\* RealmService.get_realm_by_name(identity, {realm_name}): the realm, when it exists
\* and the identity's user belongs to it or to the master realm
get_realm_by_name(identity, realm_name) ==
    LET realm == get_by_name(realm_name)
        user == CHOOSE u \in users : u.id = identity
    IN IF realm # None /\ user.realm_id \in {realm[1].id, "rid_master"}
       THEN realm ELSE None

RealmMissingStatusAlways500(identity) == "500"

\* device_middleware: the status when the realm cannot be resolved
RealmMissingStatus(identity) == IF identity # None THEN "500" ELSE "404"

\* The device id the middleware works with: the header, or the sentinel
DeviceIdOrDefault(dev) == IF dev = None THEN DefaultDevice ELSE dev[1]

device_middleware(r) ==
    /\ pc[r] = "dm"
    /\ LET device_id == DeviceIdOrDefault(req[r].dev)
           realm_name == extract_realm_from_path(req[r].path)
           identity == ext[r].identity
           realm == IF realm_name = None THEN None
                    ELSE IF identity # None
                         THEN get_realm_by_name(identity[1], realm_name[1])
                         ELSE get_by_name(realm_name[1])
       IN IF realm_name = None
          THEN Fail(r, "400", "dm") /\ UNCHANGED <<loc, hist>>
          ELSE IF realm = None
               THEN /\ Fail(r, RealmMissingStatus(identity), "dm")
                    /\ Did(r, "dm:realm_get")
                    /\ UNCHANGED loc
               ELSE /\ loc' = [loc EXCEPT ![r].realm_id = realm[1].id,
                                          ![r].device_id = device_id]
                    /\ pc' = [pc EXCEPT ![r] =
                                 IF identity # None THEN "goc_lookup" ELSE "dm_lookup"]
                    /\ Did(r, "dm:realm_get")
                    /\ UNCHANGED resp
    /\ UNCHANGED <<store, data, req, ext>>

DmLookup(r) ==
    /\ pc[r] = "dm_lookup"
    /\ LET found == ProfilesFor(loc[r].realm_id, loc[r].device_id)
       IN IF found = {}
          THEN /\ pc' = [pc EXCEPT ![r] = "dm_create_user"]
               /\ hist' = [hist EXCEPT ![r].ops = @ \cup {"dm:profile_get"},
                                       ![r].after = Finished]
               /\ UNCHANGED ext
          ELSE \E p \in found :
                 /\ hist' = [hist EXCEPT ![r].ops = @ \cup {"dm:profile_get"},
                                         ![r].after = Finished,
                                         ![r].profile = Some(p.id)]
                 /\ Publish(r, p)
    /\ UNCHANGED <<store, data, req, resp, loc>>

DmCreateUser(r) ==
    /\ pc[r] = "dm_create_user"
    /\ \/ /\ InsertUser(r)
          /\ Did(r, "dm:user_create")
          /\ pc' = [pc EXCEPT ![r] = "dm_create_profile"]
          /\ UNCHANGED <<profiles, resp>>
       \/ /\ UserKeyTaken(loc[r].realm_id, generate_anonymous_username(loc[r].device_id))
          /\ Fail(r, "500", "dm")
          /\ UNCHANGED <<store, loc, hist>>
    /\ UNCHANGED <<data, req, ext>>

DmCreateProfile(r) ==
    /\ pc[r] = "dm_create_profile"
    /\ \/ /\ InsertProfile(r, Some(loc[r].user))
          /\ hist' = [hist EXCEPT ![r].ops = @ \cup {"dm:profile_create"},
                                  ![r].profile = Some(nextId)]
          /\ Publish(r, [device_id |-> loc[r].device_id, user_id |-> loc[r].user])
          /\ UNCHANGED <<users, resp>>
       \/ /\ ProfileKeyTaken(loc[r].realm_id, loc[r].device_id)
          /\ Fail(r, "500", "dm")
          /\ UNCHANGED <<store, ext, hist>>
    /\ UNCHANGED <<data, req, loc>>

----------------------------------------------------------------------------
(* RequiredIdentity::from_request_parts and create_identity_from_device *)

\* The extractor returns Ok(RequiredIdentity(identity)) and the handler goes on.
RiReturn(r, identity) ==
    /\ hist' = [hist EXCEPT ![r].extractions = @ + 1, ![r].riResult = Some(identity)]
    /\ pc' = [pc EXCEPT ![r] = After(req[r].route, "ri")]

DeviceHeaderPresent(dev) == dev # None

\* Some(id) if !id.is_empty()
DeviceHeaderUsable(dev) == dev # None /\ dev[1] # ""

\* parts.extensions.get::<Identity>()
attached_identity_device_first(r) ==
    IF DeviceHeaderUsable(req[r].dev) THEN None ELSE ext[r].identity

attached_identity(r) == ext[r].identity

\* from_request_parts with the checks in another order: the path before the header
ri_checks_path_first(identity, dev, path) ==
    LET realm_name == extract_realm_from_path(path)
    IN IF identity # None THEN "attached"
       ELSE IF realm_name = None THEN "400"
       ELSE IF ~ DeviceHeaderUsable(dev) THEN "401"
       ELSE IF get_by_name(realm_name[1]) = None THEN "404"
       ELSE "device"

\* from_request_parts up to the realm lookup of create_identity_from_device:
\* what the extractor decides from the extensions, the header and the path
ri_checks(identity, dev, path) ==
    LET realm_name == extract_realm_from_path(path)
    IN IF identity # None THEN "attached"
       ELSE IF ~ DeviceHeaderUsable(dev) THEN "401"
       ELSE IF realm_name = None THEN "400"
       ELSE IF get_by_name(realm_name[1]) = None THEN "404"
       ELSE "device"

RequiredIdentity(r) ==
    /\ pc[r] = "ri"
    /\ LET outcome == ri_checks(attached_identity(r), req[r].dev, req[r].path)
       IN CASE outcome = "attached" ->
                 RiReturn(r, attached_identity(r)[1]) /\ UNCHANGED <<resp, loc>>
            [] outcome \in {"401", "400"} ->
                 Fail(r, outcome, "ri") /\ UNCHANGED <<loc, hist>>
            [] outcome = "404" ->
                 /\ Fail(r, "404", "ri")
                 /\ Did(r, "ri:realm_get")
                 /\ UNCHANGED loc
            [] outcome = "device" ->
                 /\ loc' = [loc EXCEPT
                       ![r].realm_id =
                           get_by_name(extract_realm_from_path(req[r].path)[1])[1].id,
                       ![r].device_id = req[r].dev[1]]
                 /\ pc' = [pc EXCEPT ![r] = "ri_lookup"]
                 /\ Did(r, "ri:realm_get")
                 /\ UNCHANGED resp
    /\ UNCHANGED <<store, data, req, ext>>

RiLookup(r) ==
    /\ pc[r] = "ri_lookup"
    /\ LET found == ProfilesFor(loc[r].realm_id, loc[r].device_id)
       IN IF found = {}
          THEN /\ pc' = [pc EXCEPT ![r] = "ri_admin"]
               /\ hist' = [hist EXCEPT ![r].ops = @ \cup {"ri:profile_get"},
                                       ![r].after = Finished]
               /\ UNCHANGED loc
          ELSE \E p \in found :
                 /\ hist' = [hist EXCEPT ![r].ops = @ \cup {"ri:profile_get"},
                                         ![r].after = Finished,
                                         ![r].profile = Some(p.id)]
                 /\ loc' = [loc EXCEPT ![r].user = p.user_id]
                 /\ pc' = [pc EXCEPT ![r] = "ri_get_user"]
    /\ UNCHANGED <<store, data, req, ext, resp>>

\* get_admin_user_id: UserRepository.get_by_username("admin", realm_id)
get_admin_user_id(r) ==
    /\ pc[r] = "ri_admin"
    /\ LET admins == { u \in users : u.username = Named("admin") /\ u.realm_id = loc[r].realm_id }
       IN IF admins = {}
          THEN Fail(r, "500", "ri") /\ UNCHANGED loc
          ELSE /\ loc' = [loc EXCEPT ![r].admin = (CHOOSE u \in admins : TRUE).id]
               /\ pc' = [pc EXCEPT ![r] = "ri_create_user"]
               /\ UNCHANGED resp
    /\ Did(r, "ri:admin_get")
    /\ UNCHANGED <<store, data, req, ext>>

RiCreateUser(r) ==
    /\ pc[r] = "ri_create_user"
    /\ \/ /\ InsertUser(r)
          /\ Did(r, "ri:user_create")
          /\ pc' = [pc EXCEPT ![r] = "ri_create_profile"]
          /\ UNCHANGED <<profiles, resp>>
       \/ /\ UserKeyTaken(loc[r].realm_id, generate_anonymous_username(loc[r].device_id))
          /\ Fail(r, "500", "ri")
          /\ UNCHANGED <<store, loc, hist>>
    /\ UNCHANGED <<data, req, ext>>

RiCreateProfile(r) ==
    /\ pc[r] = "ri_create_profile"
    /\ \/ /\ InsertProfile(r, Some(loc[r].admin))
          /\ hist' = [hist EXCEPT ![r].ops = @ \cup {"ri:profile_create"},
                                  ![r].profile = Some(nextId)]
          /\ pc' = [pc EXCEPT ![r] = "ri_get_user"]
          /\ UNCHANGED <<users, resp>>
       \/ /\ ProfileKeyTaken(loc[r].realm_id, loc[r].device_id)
          /\ Fail(r, "500", "ri")
          /\ UNCHANGED <<store, hist>>
    /\ UNCHANGED <<data, req, ext, loc>>

\* UserRepository.get_by_id(device_profile.user_id), then parts.extensions.insert(identity)
RiGetUser(r) ==
    /\ pc[r] = "ri_get_user"
    /\ IF \E u \in users : u.id = loc[r].user
       THEN /\ ext' = [ext EXCEPT ![r].identity = Some(loc[r].user)]
            /\ hist' = [hist EXCEPT ![r].extractions = @ + 1,
                                    ![r].riResult = Some(loc[r].user),
                                    ![r].ops = @ \cup {"ri:user_get"}]
            /\ pc' = [pc EXCEPT ![r] = After(req[r].route, "ri")]
            /\ UNCHANGED resp
       ELSE /\ Fail(r, "500", "ri")
            /\ Did(r, "ri:user_get")
            /\ UNCHANGED ext
    /\ UNCHANGED <<store, data, req, loc>>

\* The handler runs the extractor once more on the same request parts.
RiAgain(r) ==
    /\ pc[r] = "body"
    /\ "ri" \in { Pipeline(req[r].route)[i] : i \in 1..Len(Pipeline(req[r].route)) }
    /\ hist[r].extractions < MaxExtract
    /\ pc' = [pc EXCEPT ![r] = "ri"]
    /\ UNCHANGED <<store, data, req, ext, resp, loc, hist>>

----------------------------------------------------------------------------
(* Handlers *)

Respond(r, status) ==
    /\ resp' = [resp EXCEPT ![r] = [status |-> status, by |-> "handler"]]
    /\ pc' = [pc EXCEPT ![r] = "done"]

\* food_analysis_items rows
Items == { [id |-> "i1", realm_id |-> "rid_master"] }

\* Result<bool, CoreError> of a can_<op>
Ok(b) == <<"ok", b>>
Err(e) == <<"err", e>>

\* ensure_policy: only Ok(true) lets the operation go on
ensure_policy(result) == result = Ok(TRUE)

\* What the caller's user lookup or permission lookup fails with, if it fails
Fault(r) == IF "fault" \in DOMAIN req[r] THEN req[r].fault ELSE "none"

\* The effective permission sets the permission lookup may return for the caller
CallerPerms(r) == IF "perms" \in DOMAIN req[r] THEN {req[r].perms} ELSE PermSets

\* The same with the lookups' errors dropped
CanIgnoringFaults(r, allowed) == Ok(allowed)

\* can_<op> around its whitelist test: get_user_from_identity(..)? and
\* get_permission_for_target_realm(..)? return the error before the test
Can(r, allowed) == IF Fault(r) # "none" THEN Err(Fault(r)) ELSE Ok(allowed)

\* The statuses a refused operation answers with
RefusedStatuses(result) == IF result = Ok(FALSE) THEN {"403"} ELSE {"403", "500"}

\* The operation ends refused by ensure_policy
Refuse(r, result) ==
    /\ hist' = [hist EXCEPT ![r].policy = IF result = Ok(FALSE) THEN "denied" ELSE "error",
                            ![r].policyFor = ext[r].identity]
    /\ \E st \in RefusedStatuses(result) : Respond(r, st)

Granted(r) == hist' = [hist EXCEPT ![r].policy = "granted",
                                   ![r].policyFor = ext[r].identity,
                                   ![r].touched = TRUE]

\* POST /realms/{realm_name}/food-reactions
create_reaction(r) ==
    /\ pc[r] = "body"
    /\ req[r].route = "reaction"
    /\ LET realm == get_by_name(PathRealm(req[r].path))
       IN IF ext[r].device = None
          THEN Fail(r, "500", "extension") /\ UNCHANGED <<reactions, nextId, hist>>
          ELSE IF realm = None
               THEN Respond(r, "404") /\ UNCHANGED <<reactions, nextId, hist>>
               ELSE /\ reactions' = reactions \cup
                          { [id |-> nextId, realm_id |-> realm[1].id,
                             device_id |-> ext[r].device[1].device_id,
                             user_id |-> ext[r].device[1].user_id,
                             created_by |-> ext[r].identity[1]] }
                    /\ nextId' = nextId + 1
                    /\ hist' = [hist EXCEPT ![r].touched = TRUE]
                    /\ Respond(r, "201")
    /\ UNCHANGED <<users, profiles, prompts, symptoms, analyses, files, req, ext, loc>>

\* GET /realms/{realm_name}/food-analysis/items/{item_id}
get_analysis_item(r) ==
    /\ pc[r] = "body"
    /\ req[r].route = "item"
    /\ LET realm == get_by_name(PathRealm(req[r].path))
       IN IF ext[r].device = None
          THEN Fail(r, "500", "extension") /\ UNCHANGED hist
          ELSE IF realm = None
               THEN Respond(r, "404") /\ UNCHANGED hist
               ELSE /\ hist' = [hist EXCEPT ![r].touched = TRUE]
                    /\ IF \E it \in Items : it.id = "i1" /\ it.realm_id = realm[1].id
                       THEN Respond(r, "200")
                       ELSE Respond(r, "404")
    /\ UNCHANGED <<store, data, req, ext, loc>>

\* POST /realms/{realm_name}/prompts: the handler and PromptService::create_prompt
create_prompt(r) ==
    /\ pc[r] = "body"
    /\ req[r].route = "prompt"
    /\ LET realm == get_by_name(PathRealm(req[r].path))
       IN IF realm = None
          THEN Respond(r, "invalid_realm") /\ UNCHANGED <<prompts, nextId, hist>>
          ELSE \E perms \in PermSets :
                 IF ensure_policy(Ok(can_create_prompt(perms)))
                 THEN /\ prompts' = prompts \cup
                            { NewPrompt(nextId, realm[1].id, ext[r].identity[1]) }
                      /\ nextId' = nextId + 1
                      /\ hist' = [hist EXCEPT ![r].policy = "granted",
                                              ![r].touched = TRUE]
                      /\ Respond(r, "200")
                 ELSE /\ hist' = [hist EXCEPT ![r].policy = "denied"]
                      /\ Respond(r, "403")
                      /\ UNCHANGED <<prompts, nextId>>
    /\ UNCHANGED <<users, profiles, reactions, symptoms, analyses, files, req, ext, loc>>

\* UserRepository.get_by_id
get_by_id(user_id) ==
    IF \E u \in users : u.id = user_id
    THEN Some(CHOOSE u \in users : u.id = user_id)
    ELSE None

\* prompts of the realm that are active and not deleted
ActivePrompts(realm_id) ==
    { p \in prompts : p.realm_id = realm_id /\ p.is_active /\ ~p.is_deleted }

\* POST /realms/{realm_name}/food-analysis/text: the handler and
\* FoodAnalysisService::analyze_food with no prompt_id in the body
analyze_food_text(r) ==
    /\ pc[r] = "body"
    /\ req[r].route = "analyze"
    /\ LET user == IF ext[r].device = None THEN None
                   ELSE get_by_id(ext[r].device[1].user_id)
           realm == get_by_name(PathRealm(req[r].path))
       IN IF ext[r].device = None
          THEN Fail(r, "500", "extension") /\ UNCHANGED <<analyses, nextId, hist>>
          ELSE IF user = None
          THEN Respond(r, "500") /\ UNCHANGED <<analyses, nextId, hist>>
          ELSE IF realm = None
          THEN Respond(r, "invalid_realm") /\ UNCHANGED <<analyses, nextId, hist>>
          ELSE \E perms \in PermSets, llm_ok \in BOOLEAN :
                 IF ~ensure_policy(Ok(can_analyze_food(perms)))
                 THEN /\ hist' = [hist EXCEPT ![r].policy = "denied",
                                              ![r].policyFor = Some(user[1].id)]
                      /\ Respond(r, "403")
                      /\ UNCHANGED <<analyses, nextId>>
                 ELSE IF ActivePrompts(realm[1].id) = {} \/ ~llm_ok
                 THEN /\ hist' = [hist EXCEPT ![r].policy = "granted",
                                              ![r].policyFor = Some(user[1].id),
                                              ![r].touched = TRUE]
                      /\ Respond(r, IF ActivePrompts(realm[1].id) = {} THEN "404" ELSE "502")
                      /\ UNCHANGED <<analyses, nextId>>
                 ELSE /\ analyses' = analyses \cup
                            { [id |-> nextId, realm_id |-> realm[1].id,
                               created_by |-> user[1].id,
                               device_id |-> ext[r].device[1].device_id,
                               user_id |-> ext[r].device[1].user_id] }
                      /\ nextId' = nextId + 1
                      /\ hist' = [hist EXCEPT ![r].policy = "granted",
                                              ![r].policyFor = Some(user[1].id),
                                              ![r].touched = TRUE]
                      /\ Respond(r, "200")
    /\ UNCHANGED <<users, profiles, prompts, reactions, symptoms, files, req, ext, loc>>

\* GET /realms/{realm_name}/food-analysis/history: the handler and
\* FoodAnalysisService::get_analysis_history
get_analysis_history(r) ==
    /\ pc[r] = "body"
    /\ req[r].route = "history"
    /\ LET user == IF ext[r].device = None THEN None
                   ELSE get_by_id(ext[r].device[1].user_id)
           realm == get_by_name(PathRealm(req[r].path))
       IN IF ext[r].device = None
          THEN Fail(r, "500", "extension") /\ UNCHANGED hist
          ELSE IF user = None
          THEN Respond(r, "500") /\ UNCHANGED hist
          ELSE IF realm = None
          THEN Respond(r, "invalid_realm") /\ UNCHANGED hist
          ELSE \E perms \in PermSets :
                 IF ensure_policy(Ok(can_view_analysis(perms)))
                 THEN /\ hist' = [hist EXCEPT ![r].policy = "granted",
                                              ![r].policyFor = Some(user[1].id),
                                              ![r].touched = TRUE]
                      /\ Respond(r, "200")
                 ELSE /\ hist' = [hist EXCEPT ![r].policy = "denied",
                                              ![r].policyFor = Some(user[1].id)]
                      /\ Respond(r, "403")
    /\ UNCHANGED <<store, data, req, ext, loc>>

\* PromptRepository.get_prompt_by_id
get_prompt_by_id(prompt_id, realm_id) ==
    { p \in prompts : p.id = prompt_id /\ p.realm_id = realm_id /\ ~p.is_deleted }

FetchPromptsWithDeleted(realm_id, include_deleted) ==
    { p \in prompts : p.realm_id = realm_id }

\* PromptRepository.fetch_prompts_by_realm with no name or description filter
fetch_prompts_by_realm(realm_id, include_deleted) ==
    { p \in prompts : p.realm_id = realm_id /\ (include_deleted \/ ~p.is_deleted) }

\* The service returns Ok(value)
Return(r, value) ==
    /\ resp' = [resp EXCEPT ![r] = [status |-> "200", by |-> "handler", body |-> value]]
    /\ pc' = [pc EXCEPT ![r] = "done"]

PolicyCallOf(r, op) == pc[r] = "body" /\ req[r].route = "psvc" /\ req[r].op = op

\* PromptService::get_prompts
svc_get_prompts(r) ==
    /\ PolicyCallOf(r, "get_prompts")
    /\ LET realm == get_by_name(PathRealm(req[r].path))
       IN IF realm = None
          THEN Respond(r, "invalid_realm") /\ UNCHANGED hist
          ELSE \E perms \in CallerPerms(r) :
                 LET result == Can(r, can_view_prompt(perms))
                 IN IF ensure_policy(result)
                    THEN /\ Granted(r)
                         /\ Return(r, fetch_prompts_by_realm(realm[1].id,
                                                             req[r].include_deleted))
                    ELSE Refuse(r, result)
    /\ UNCHANGED <<store, data, req, ext, loc>>

\* PromptService::get_prompt
svc_get_prompt(r) ==
    /\ PolicyCallOf(r, "get_prompt")
    /\ LET realm == get_by_name(PathRealm(req[r].path))
       IN IF realm = None
          THEN Respond(r, "invalid_realm") /\ UNCHANGED hist
          ELSE \E perms \in CallerPerms(r) :
                 LET result == Can(r, can_view_prompt(perms))
                 IN IF ensure_policy(result)
                    THEN /\ Granted(r)
                         /\ Return(r, get_prompt_by_id(req[r].prompt_id[1], realm[1].id))
                    ELSE Refuse(r, result)
    /\ UNCHANGED <<store, data, req, ext, loc>>

\* PromptService::create_prompt
svc_create_prompt(r) ==
    /\ PolicyCallOf(r, "create_prompt")
    /\ LET realm == get_by_name(PathRealm(req[r].path))
       IN IF realm = None
          THEN Respond(r, "invalid_realm") /\ UNCHANGED <<prompts, nextId, hist>>
          ELSE \E perms \in CallerPerms(r) :
                 LET result == Can(r, can_create_prompt(perms))
                 IN IF ensure_policy(result)
                    THEN /\ prompts' = prompts \cup
                               { NewPrompt(nextId, realm[1].id, ext[r].identity[1]) }
                         /\ nextId' = nextId + 1
                         /\ Granted(r) /\ Respond(r, "200")
                    ELSE Refuse(r, result) /\ UNCHANGED <<prompts, nextId>>
    /\ UNCHANGED <<users, profiles, reactions, symptoms, analyses, files, req, ext, loc>>

\* PromptService::update_prompt with a new name
svc_update_prompt(r) ==
    /\ PolicyCallOf(r, "update_prompt")
    /\ LET realm == get_by_name(PathRealm(req[r].path))
       IN IF realm = None
          THEN Respond(r, "invalid_realm") /\ UNCHANGED <<prompts, hist>>
          ELSE \E perms \in CallerPerms(r) :
                 LET result == Can(r, can_update_prompt(perms))
                     found == get_prompt_by_id(req[r].prompt_id[1], realm[1].id)
                 IN IF ~ensure_policy(result)
                    THEN Refuse(r, result) /\ UNCHANGED prompts
                    ELSE IF found = {}
                    THEN Granted(r) /\ Respond(r, "404") /\ UNCHANGED prompts
                    ELSE /\ prompts' = (prompts \ found) \cup
                               { [p EXCEPT !.name = "n1",
                                           !.updated_by = ext[r].identity[1]] : p \in found }
                         /\ Granted(r) /\ Respond(r, "200")
    /\ UNCHANGED <<store, reactions, symptoms, analyses, files, req, ext, loc>>

\* PromptService::delete_prompt
svc_delete_prompt(r) ==
    /\ PolicyCallOf(r, "delete_prompt")
    /\ LET realm == get_by_name(PathRealm(req[r].path))
       IN IF realm = None
          THEN Respond(r, "invalid_realm") /\ UNCHANGED <<prompts, hist>>
          ELSE \E perms \in CallerPerms(r) :
                 LET result == Can(r, can_delete_prompt(perms))
                     hit == { p \in prompts : p.id = req[r].prompt_id[1]
                                               /\ p.realm_id = realm[1].id }
                 IN IF ~ensure_policy(result)
                    THEN Refuse(r, result) /\ UNCHANGED prompts
                    ELSE /\ prompts' = (prompts \ hit) \cup
                               { [p EXCEPT !.is_deleted = TRUE,
                                           !.deleted_by = Some(ext[r].identity[1])] :
                                 p \in hit }
                         /\ Granted(r) /\ Respond(r, "200")
    /\ UNCHANGED <<store, reactions, symptoms, analyses, files, req, ext, loc>>

\* FoodAnalysisService::analyze_food: with a prompt_id the prompt of that id, which
\* must be active, else the realm's active prompts
svc_analyze_food(r) ==
    /\ PolicyCallOf(r, "analyze_food")
    /\ LET realm == get_by_name(PathRealm(req[r].path))
       IN IF realm = None
          THEN Respond(r, "invalid_realm") /\ UNCHANGED <<analyses, nextId, hist>>
          ELSE \E perms \in CallerPerms(r), llm_ok \in BOOLEAN :
                 LET result == Can(r, can_analyze_food(perms))
                     usable == IF req[r].prompt_id # None
                               THEN get_prompt_by_id(req[r].prompt_id[1], realm[1].id)
                               ELSE ActivePrompts(realm[1].id)
                 IN IF ~ensure_policy(result)
                    THEN Refuse(r, result) /\ UNCHANGED <<analyses, nextId>>
                    ELSE IF usable = {}
                    THEN Granted(r) /\ Respond(r, "404") /\ UNCHANGED <<analyses, nextId>>
                    ELSE IF \E p \in usable : ~p.is_active
                    THEN Granted(r) /\ Respond(r, "400") /\ UNCHANGED <<analyses, nextId>>
                    ELSE IF ~llm_ok
                    THEN Granted(r) /\ Respond(r, "502") /\ UNCHANGED <<analyses, nextId>>
                    ELSE /\ analyses' = analyses \cup
                               { [id |-> nextId, realm_id |-> realm[1].id,
                                  created_by |-> ext[r].identity[1],
                                  device_id |-> "", user_id |-> ext[r].identity[1]] }
                         /\ nextId' = nextId + 1
                         /\ Granted(r) /\ Respond(r, "200")
    /\ UNCHANGED <<users, profiles, prompts, reactions, symptoms, files, req, ext, loc>>

\* FoodAnalysisService::get_analysis_history
svc_get_analysis_history(r) ==
    /\ PolicyCallOf(r, "get_analysis_history")
    /\ LET realm == get_by_name(PathRealm(req[r].path))
       IN IF realm = None
          THEN Respond(r, "invalid_realm") /\ UNCHANGED hist
          ELSE \E perms \in CallerPerms(r) :
                 LET result == Can(r, can_view_analysis(perms))
                 IN IF ensure_policy(result)
                    THEN Granted(r) /\ Respond(r, "200")
                    ELSE Refuse(r, result)
    /\ UNCHANGED <<store, data, req, ext, loc>>

\* user.realm of the caller: the realm the caller's user row belongs to
UserRealm(user_id) ==
    LET u == CHOOSE v \in users : v.id = user_id
    IN CHOOSE rl \in Realms : rl.id = u.realm_id

\* What FilePolicy::can_upload / can_view / can_delete may answer
FilePolicyResults == { Ok(TRUE), Ok(FALSE), Err("policy") }

\* stored_object.realm_id != realm.id && realm.name != "master"
FileOutsideRealm(stored, realm) == stored.realm_id # realm.id /\ realm.name # "master"

FileCallOf(r, op) == pc[r] = "body" /\ req[r].route = "file" /\ req[r].op = op

\* POST /realms/{realm_name}/files/{file_id}/complete and FileService::complete_upload
complete_upload(r) ==
    /\ FileCallOf(r, "complete_upload")
    /\ LET found == { f \in files : f.id = req[r].file_id }
           realm == UserRealm(ext[r].identity[1])
       IN IF found = {}
          THEN Respond(r, "404") /\ UNCHANGED hist
          ELSE \E stored \in found, result \in FilePolicyResults :
                 IF FileOutsideRealm(stored, realm)
                 THEN Respond(r, "403") /\ UNCHANGED hist
                 ELSE IF ~ensure_policy(result)
                 THEN Refuse(r, result)
                 ELSE IF stored.uploaded_by # ext[r].identity[1]
                 THEN /\ hist' = [hist EXCEPT ![r].policy = "granted",
                                              ![r].policyFor = ext[r].identity]
                      /\ Respond(r, "403")
                 ELSE Granted(r) /\ Respond(r, "200")
    /\ UNCHANGED <<store, data, req, ext, loc>>

\* GET /realms/{realm_name}/files/{file_id}/download and FileService::get_download_url
get_download_url(r) ==
    /\ FileCallOf(r, "get_download_url")
    /\ LET found == { f \in files : f.id = req[r].file_id }
           realm == UserRealm(ext[r].identity[1])
       IN IF found = {}
          THEN Respond(r, "404") /\ UNCHANGED hist
          ELSE \E stored \in found, result \in FilePolicyResults :
                 IF FileOutsideRealm(stored, realm)
                 THEN Respond(r, "403") /\ UNCHANGED hist
                 ELSE IF ~ensure_policy(result)
                 THEN Refuse(r, result)
                 ELSE Granted(r) /\ Respond(r, "200")
    /\ UNCHANGED <<store, data, req, ext, loc>>

\* DELETE /realms/{realm_name}/files/{file_id} and FileService::delete_file
delete_file(r) ==
    /\ FileCallOf(r, "delete_file")
    /\ LET found == { f \in files : f.id = req[r].file_id }
           realm == UserRealm(ext[r].identity[1])
       IN IF found = {}
          THEN Respond(r, "404") /\ UNCHANGED <<files, hist>>
          ELSE \E stored \in found, result \in FilePolicyResults :
                 IF FileOutsideRealm(stored, realm)
                 THEN Respond(r, "403") /\ UNCHANGED <<files, hist>>
                 ELSE IF ~ensure_policy(result)
                 THEN Refuse(r, result) /\ UNCHANGED files
                 ELSE /\ files' = files \ {stored}
                      /\ Granted(r) /\ Respond(r, "200")
    /\ UNCHANGED <<store, prompts, reactions, symptoms, analyses, req, ext, loc>>

\* extract_token_from_bearer: the typed Authorization<Bearer> header, or TokenNotFound.
\* Whether the header parser takes a Bearer header with an empty token is the
\* parser's choice, so both outcomes are kept.
extract_token_from_bearer(h) ==
    IF ~h.present \/ h.scheme # "Bearer " THEN { Err("TokenNotFound") }
    ELSE IF h.token = EmptyToken THEN { Ok(h.token), Err("TokenNotFound") }
    ELSE { Ok(h.token) }

\* The same decoding with the parsers' own errors let through
JwtClaimsLeakingParser(token) ==
    IF Len(token) # 3 THEN Err("InvalidToken")
    ELSE LET decoded == base64_decode(token[2])
         IN IF decoded = None THEN Err("InvalidToken")
            ELSE LET payload_str == from_utf8(decoded[1])
                 IN IF payload_str = None THEN Err("FromUtf8Error")
                    ELSE LET claims == parse_claims(payload_str[1])
                         IN IF claims = None THEN Err("InvalidToken")
                            ELSE Ok(claims[1])

\* Jwt::from_request_parts after the token is extracted: split, decode, parse
JwtClaims(token) ==
    IF Len(token) # 3 THEN Err("InvalidToken")
    ELSE LET decoded == base64_decode(token[2])
         IN IF decoded = None THEN Err("InvalidToken")
            ELSE LET payload_str == from_utf8(decoded[1])
                 IN IF payload_str = None THEN Err("InvalidToken")
                    ELSE LET claims == parse_claims(payload_str[1])
                         IN IF claims = None THEN Err("InvalidToken")
                            ELSE Ok(claims[1])

\* A handler taking the Jwt extractor: the extractor's result is the outcome
jwt(r) ==
    /\ pc[r] = "body"
    /\ req[r].route = "jwt"
    /\ \E token \in extract_token_from_bearer(req[r].auth) :
          LET result == IF token[1] = "err" THEN token ELSE JwtClaims(token[2])
          IN Respond(r, IF result[1] = "err" THEN result[2] ELSE "Ok")
    /\ UNCHANGED <<store, data, req, ext, loc, hist>>

\* Path((realm_name, device_id)): the route's {device_id} parameter
PathDevice(path) == path[5]

\* GET /realms/{realm_name}/devices/{device_id}: Extension<DeviceContext> is
\* rejected with 500 when no layer has inserted the DeviceContext
get_device(r) ==
    /\ pc[r] = "body"
    /\ req[r].route = "device"
    /\ LET realm == get_by_name(PathRealm(req[r].path))
           found == IF realm = None THEN {}
                    ELSE ProfilesFor(realm[1].id, PathDevice(req[r].path))
       IN IF ext[r].device = None
          THEN Fail(r, "500", "extension") /\ UNCHANGED hist
          ELSE IF ext[r].device[1].device_id # PathDevice(req[r].path)
          THEN Respond(r, "400") /\ UNCHANGED hist
          ELSE IF realm = None \/ found = {}
          THEN Respond(r, "404") /\ UNCHANGED hist
          ELSE \E p \in found :
                 /\ hist' = [hist EXCEPT ![r].profile = Some(p.id)]
                 /\ Respond(r, "200")
    /\ UNCHANGED <<store, data, req, ext, loc>>

\* A handler that takes RequiredIdentity and nothing else
probe(r) ==
    /\ pc[r] = "body"
    /\ req[r].route = "probe"
    /\ Respond(r, "200")
    /\ UNCHANGED <<store, data, req, ext, loc, hist>>

----------------------------------------------------------------------------
(* The system *)

Step(r) ==
    \/ auth(r)
    \/ device_middleware(r)
    \/ DmLookup(r)
    \/ DmCreateUser(r)
    \/ DmCreateProfile(r)
    \/ GocLookup(r)
    \/ GocCreateUser(r)
    \/ GocCreateProfile(r)
    \/ RequiredIdentity(r)
    \/ RiLookup(r)
    \/ get_admin_user_id(r)
    \/ RiCreateUser(r)
    \/ RiCreateProfile(r)
    \/ RiGetUser(r)
    \/ RiAgain(r)
    \/ create_reaction(r)
    \/ get_analysis_item(r)
    \/ create_prompt(r)
    \/ probe(r)

Next == \E r \in Reqs : Step(r)

Spec == Init /\ [][Next]_vars

\* Requests served one after the other: a request steps only when no other is under way.
Idle(q) == pc[q] = "done" \/ (hist[q] = NoHist /\ resp[q] = NoResp /\ loc[q] = NoLoc)

Alone(r) == \A q \in Reqs \ {r} : Idle(q)

\* The insert-conflict branches of the create steps need an overlapping request,
\* so under this relation they are never taken.
NextSeq ==
    \E r \in Reqs :
        \/ Alone(r) /\ auth(r)
        \/ Alone(r) /\ device_middleware(r)
        \/ Alone(r) /\ DmLookup(r)
        \/ Alone(r) /\ DmCreateUser(r)
        \/ Alone(r) /\ DmCreateProfile(r)
        \/ Alone(r) /\ GocLookup(r)
        \/ Alone(r) /\ GocCreateUser(r)
        \/ Alone(r) /\ GocCreateProfile(r)
        \/ Alone(r) /\ RequiredIdentity(r)
        \/ Alone(r) /\ RiLookup(r)
        \/ Alone(r) /\ get_admin_user_id(r)
        \/ Alone(r) /\ RiCreateUser(r)
        \/ Alone(r) /\ RiCreateProfile(r)
        \/ Alone(r) /\ RiGetUser(r)
        \/ Alone(r) /\ RiAgain(r)
        \/ Alone(r) /\ create_reaction(r)
        \/ Alone(r) /\ get_analysis_item(r)
        \/ Alone(r) /\ create_prompt(r)
        \/ Alone(r) /\ probe(r)

SpecSeq == Init /\ [][NextSeq]_vars

\* The service operations called with an identity, a permission context and a realm
NextPolicy ==
    \E r \in Reqs :
        \/ svc_get_prompts(r)
        \/ svc_get_prompt(r)
        \/ svc_create_prompt(r)
        \/ svc_update_prompt(r)
        \/ svc_delete_prompt(r)
        \/ svc_analyze_food(r)
        \/ svc_get_analysis_history(r)

SpecPolicy == InitPolicy /\ [][NextPolicy]_vars

CancelRollingBack(r) ==
    /\ pc[r] \in {"goc_lookup", "goc_create_user", "goc_create_profile",
                 "dm_lookup", "dm_create_user", "dm_create_profile",
                 "ri_lookup", "ri_admin", "ri_create_user", "ri_create_profile",
                 "ri_get_user"}
    /\ users' = { u \in users : u.id # loc[r].user }
    /\ resp' = [resp EXCEPT ![r] = [status |-> "cancelled", by |-> "client"]]
    /\ pc' = [pc EXCEPT ![r] = "done"]
    /\ UNCHANGED <<profiles, nextId, data, req, ext, loc, hist>>

\* The request's future is dropped at an .await of a provisioning path: nothing
\* more of it runs, nothing it wrote is undone, no response is produced
Cancel(r) ==
    /\ pc[r] \in {"goc_lookup", "goc_create_user", "goc_create_profile",
                 "dm_lookup", "dm_create_user", "dm_create_profile",
                 "ri_lookup", "ri_admin", "ri_create_user", "ri_create_profile",
                 "ri_get_user"}
    /\ resp' = [resp EXCEPT ![r] = [status |-> "cancelled", by |-> "client"]]
    /\ pc' = [pc EXCEPT ![r] = "done"]
    /\ UNCHANGED <<store, data, req, ext, loc, hist>>

\* Every request may be dropped while it provisions
SpecCancel == Init /\ [][\E r \in Reqs : Step(r) \/ Cancel(r)]_vars

\* Calls of the prompt services and of analyze_food by a caller who may do all of
\* them, for the prompts 90 (of master) and 91 (of acme), under either realm
PromptInputs ==
    LET Call(op, realm_name, prompt_id, include_deleted) ==
            [PolicyCall(op, {"ManageRealm"}, "none", realm_name)
                EXCEPT !.prompt_id = prompt_id, !.include_deleted = include_deleted]
    IN { Call("get_prompts", rn, None, d) : rn \in {"master", "acme"}, d \in BOOLEAN }
       \cup { Call(op, rn, Some(id), FALSE) :
                op \in {"get_prompt", "update_prompt", "delete_prompt", "analyze_food"},
                rn \in {"master", "acme"}, id \in {90, 91} }
       \cup { Call("analyze_food", rn, None, FALSE) : rn \in {"master", "acme"} }

InitPromptSpec ==
    /\ users = InitUsers
    /\ profiles = {}
    /\ nextId = 3
    /\ prompts = InitPrompts \cup { NewPrompt(91, "rid_acme", 1) }
    /\ reactions = {}
    /\ symptoms = {}
    /\ analyses = {}
    /\ files = {}
    /\ InitRequests(PromptInputs)

SpecPrompts ==
    InitPromptSpec /\ [][\E r \in Reqs : \/ svc_get_prompts(r)
                                         \/ svc_get_prompt(r)
                                         \/ svc_update_prompt(r)
                                         \/ svc_delete_prompt(r)
                                         \/ svc_analyze_food(r)]_vars

\* The file operations on a stored object
NextFiles ==
    \E r \in Reqs : complete_upload(r) \/ get_download_url(r) \/ delete_file(r)

SpecFiles == InitFileSpec /\ [][NextFiles]_vars

\* The Jwt extractor on every shape of header
NextJwt == \E r \in Reqs : jwt(r)

SpecJwt == InitWith(JwtInputs) /\ [][NextJwt]_vars

\* The device endpoint behind its one layer
NextDevice == \E r \in Reqs : auth(r) \/ get_device(r)

SpecDevice == InitWith(DeviceInputs) /\ [][NextDevice]_vars

\* The food-analysis endpoints behind their two layers
NextAnalysis ==
    \E r \in Reqs :
        \/ device_middleware(r)
        \/ DmLookup(r)
        \/ DmCreateUser(r)
        \/ DmCreateProfile(r)
        \/ auth(r)
        \/ analyze_food_text(r)
        \/ get_analysis_history(r)

SpecAnalysis == InitAnalysis /\ [][NextAnalysis]_vars

\* The auth middleware and the extractor alone, under every shape of header
NextHeaders == \E r \in Reqs : auth(r) \/ RequiredIdentity(r) \/ RiAgain(r) \/ probe(r)

SpecHeaders == InitWith(HeaderInputs) /\ [][NextHeaders]_vars

----------------------------------------------------------------------------
(* Vocabulary of the properties *)

RiRoutes == {"prompt", "reaction", "probe"}
DmRoutes == {"reaction", "item"}

Creations == {"goc:user_create", "goc:profile_create", "dm:user_create",
              "dm:profile_create", "ri:user_create", "ri:profile_create"}

RiOps == {"ri:realm_get", "ri:profile_get", "ri:admin_get", "ri:user_create",
          "ri:profile_create", "ri:user_get"}

\* Headers whose bearer attempt fails: bad signature, undecodable payload, two segments
FailedBearers == { Bearer(BadSigToken), Bearer(BadB64Token), Bearer(TwoSegToken) }

\* A non-empty Bearer token of three segments whose payload decodes and that verifies
ValidBearer(h) ==
    /\ h.present /\ h.scheme = "Bearer " /\ h.token # EmptyToken
    /\ Len(h.token) = 3 /\ h.token[2] = "claims" /\ h.token[3] = "goodsig"

DeviceHeaderMissing(r) == req[r].dev \in { None, Some("") }

HasRealmSegment(r) == req[r].route # "probe"
NamesExistingRealm(r) == HasRealmSegment(r) /\ req[r].path[3] \in {"master", "acme"}
RealmIdNamed(r) == IF req[r].path[3] = "master" THEN "rid_master" ELSE "rid_acme"

\* The extractor ran for a request that came out of the auth middleware with no Identity.
RiRanUnattached(r) ==
    /\ req[r].route \in RiRoutes
    /\ hist[r].authOut = "nothing"
    /\ pc[r] # "ri"

----------------------------------------------------------------------------
(* C1: in every reachable state the device-profile store holds at most one
   DeviceProfile per (realm_id, device_id) pair, also when first-contact
   requests for the same pair interleave at each persistence call. *)
C1_AtMostOneProfilePerPair ==
    \A p, q \in profiles :
        (p.realm_id = q.realm_id /\ p.device_id = q.device_id) => p = q

(* C2: under sequential execution a second get_or_create_device_profile for the
   same (realm, device_id), issued after a successful first call, returns the
   first call's profile id and creates no further user or profile row. *)
SameCall(a, b) ==
    /\ a # b
    /\ req[a].route = "svc" /\ req[b].route = "svc"
    /\ req[a].path = req[b].path /\ req[a].dev = req[b].dev
    /\ resp[a].status = "200"
    /\ a \in hist[b].after
    /\ pc[b] = "done"

C2_SecondCallIdempotent ==
    \A a, b \in Reqs :
        SameCall(a, b) =>
            /\ resp[b].status = "200"
            /\ hist[b].profile = hist[a].profile
            /\ hist[b].ops \cap Creations = {}
            /\ Cardinality({ p \in profiles : p.realm_id = RealmIdNamed(b)
                                              /\ p.device_id = req[b].dev[1] }) = 1
            /\ Cardinality({ u \in users : u.realm_id = RealmIdNamed(b)
                                /\ u.username = <<"sha256_16", req[b].dev[1]>> }) = 1

C2_Witness ==
    \E a, b \in Reqs :
        SameCall(a, b) /\ "goc:profile_create" \in hist[a].ops

(* C3: with an Identity attached by bearer resolution and an X-Device-Id header
   present, RequiredIdentity returns the attached identity and performs no realm
   lookup, no device-profile lookup and no user or profile creation. *)
C3_BearerWins ==
    \A r \in Reqs :
        (hist[r].authOut = "attached" /\ hist[r].extractions >= 1) =>
            /\ hist[r].riResult = Some(AliceId)
            /\ ext[r].identity = Some(AliceId)
            /\ hist[r].ops \cap RiOps = {}

C3_Witness ==
    \E r \in Reqs :
        /\ hist[r].authOut = "attached"
        /\ req[r].dev = Some("d1")
        /\ NamesExistingRealm(r)
        /\ hist[r].extractions >= 1

(* C4: a request whose bearer attempt failed and whose X-Device-Id header is
   absent or empty never gets an Identity attached; RequiredIdentity rejects it
   with Unauthorized and it never reaches a handler behind RequiredIdentity. *)
C4_NoIdentityNoEntry ==
    \A r \in Reqs :
        (req[r].auth \in FailedBearers /\ DeviceHeaderMissing(r)) =>
            /\ ext[r].identity = None
            /\ hist[r].extractions = 0
            /\ req[r].route \in RiRoutes =>
                  /\ pc[r] # "body"
                  /\ resp[r].by # "handler"
                  /\ RiRanUnattached(r) => (pc[r] = "done" /\ resp[r] = [status |-> "401", by |-> "ri"])

C4_Witness ==
    \E r \in Reqs :
        /\ req[r].auth = Bearer(TwoSegToken)
        /\ req[r].dev = None
        /\ resp[r] = [status |-> "401", by |-> "ri"]

(* C5: the auth middleware always forwards the request; it attaches an Identity
   exactly when the header is a non-empty Bearer token of three segments whose
   payload decodes to claims and authorize_request succeeds, else nothing. *)
C5_AuthSoft ==
    \A r \in Reqs :
        /\ resp[r].by # "auth"
        /\ hist[r].authOut # "pending" =>
              /\ pc[r] # "auth"
              /\ (hist[r].authOut = "attached") <=> ValidBearer(req[r].auth)
              /\ hist[r].authOut = "attached" => ext[r].identity = Some(AliceId)
              /\ (hist[r].authOut = "nothing" /\ pc[r] = After(req[r].route, "auth")
                    /\ hist[r].extractions = 0)
                    => ext[r].identity = None

C5_Witness ==
    \E a, b \in Reqs :
        /\ hist[a].authOut = "attached"
        /\ hist[b].authOut = "nothing" /\ req[b].auth = Bearer(FourSegToken)
        /\ pc[b] = After(req[b].route, "auth")

(* C6: with no Identity attached, a non-empty X-Device-Id and a path naming an
   existing realm, RequiredIdentity resolves to the user bound to the
   (realm, device_id) profile and stores it in the request context. *)
C6_DeviceResolves ==
    \A r \in Reqs :
        (RiRanUnattached(r) /\ ~ DeviceHeaderMissing(r) /\ NamesExistingRealm(r)
            /\ pc[r] = "done") =>
            /\ resp[r].by = "handler"
            /\ ext[r].identity # None
            /\ \E p \in profiles :
                  /\ p.realm_id = RealmIdNamed(r) /\ p.device_id = req[r].dev[1]
                  /\ ext[r].identity = Some(p.user_id)

(* C7: with no Identity attached RequiredIdentity checks, in this order, the
   X-Device-Id header (else Unauthorized), the realms path segment (else
   BadRequest), the realm's existence (else NotFound); the first failing check
   decides the error. *)
C7_CheckOrder ==
    \A r \in Reqs :
        RiRanUnattached(r) =>
            /\ DeviceHeaderMissing(r) => resp[r] = [status |-> "401", by |-> "ri"]
            /\ (~ DeviceHeaderMissing(r) /\ ~ HasRealmSegment(r))
                  => resp[r] = [status |-> "400", by |-> "ri"]
            /\ (~ DeviceHeaderMissing(r) /\ HasRealmSegment(r) /\ ~ NamesExistingRealm(r))
                  => resp[r] = [status |-> "404", by |-> "ri"]
            /\ (~ DeviceHeaderMissing(r) /\ NamesExistingRealm(r))
                  => resp[r].status \notin {"401", "400", "404"} \/ resp[r].by # "ri"

C7_Witness ==
    \E a, b \in Reqs :
        /\ RiRanUnattached(a) /\ DeviceHeaderMissing(a) /\ ~ HasRealmSegment(a)
        /\ resp[a].status = "401"
        /\ RiRanUnattached(b) /\ ~ DeviceHeaderMissing(b) /\ ~ HasRealmSegment(b)
        /\ resp[b].status = "400"

(* C8: a device-only request addressed to a realm name that does not exist is
   rejected with NotFound by RequiredIdentity and by the device middleware, and
   neither a user nor a device profile is created. *)
DeviceOnlyToGhost(r) ==
    /\ req[r].auth = NoHeader
    /\ req[r].dev = Some("d1")
    /\ HasRealmSegment(r) /\ req[r].path[3] = "ghost"

C8_GhostRealmNotFound ==
    \A r \in Reqs :
        DeviceOnlyToGhost(r) =>
            /\ hist[r].ops \cap Creations = {}
            /\ pc[r] \in {"dm", "auth", "ri", "done"}
            /\ pc[r] = "done" =>
                  /\ resp[r].status = "404"
                  /\ resp[r].by = (IF req[r].route \in DmRoutes THEN "dm" ELSE "ri")
            /\ \A u \in users : u.realm_id \in {"rid_master", "rid_acme"}
            /\ \A p \in profiles : p.realm_id \in {"rid_master", "rid_acme"}

C8_Witness ==
    \E a, b \in Reqs :
        /\ DeviceOnlyToGhost(a) /\ resp[a] = [status |-> "404", by |-> "ri"]
        /\ DeviceOnlyToGhost(b) /\ resp[b] = [status |-> "404", by |-> "dm"]

(* C9: a lookup or get-or-create scoped to one realm never returns a
   DeviceProfile of another realm, even for the same device_id; the same
   device_id provisioned in two realms has two profiles bound to two users. *)
C9_RealmIsolation ==
    /\ \A r \in Reqs : \A p \in profiles :
          hist[r].profile = Some(p.id) => p.realm_id = RealmIdNamed(r)
    /\ \A p, q \in profiles :
          p.realm_id # q.realm_id => (p.id # q.id /\ p.user_id # q.user_id)
    /\ \A p \in profiles : \A u \in users :
          u.id = p.user_id => u.realm_id = p.realm_id

C9_Witness ==
    \E p, q \in profiles :
        /\ p.realm_id = "rid_master" /\ q.realm_id = "rid_acme"
        /\ p.device_id = "d1" /\ q.device_id = "d1"
        /\ \E r \in Reqs : hist[r].profile = Some(q.id) /\ pc[r] = "done"

(* C10: every request path that reads or mutates realm-scoped tenant data calls
   the policy engine's can_<op> for the resolved identity and the target realm,
   and touches the data only when the check returns true. *)
C10_PolicyBeforeData ==
    \A r \in Reqs : hist[r].touched => hist[r].policy = "granted"

(* C11: the Identity a food-analysis operation hands to the policy engine is the
   Identity resolved for the request: with a valid bearer token the policy is asked
   about the bearer-derived identity, not about the device-provisioned user. *)
C11_PolicyAsksResolvedIdentity ==
    \A r \in Reqs :
        (req[r].route \in AnalysisRoutes /\ hist[r].policy # "unchecked"
            /\ ValidBearer(req[r].auth)) =>
                hist[r].policyFor = BearerIdentity(req[r].auth)

ReadOps == {"get_prompts", "get_prompt", "analyze_food", "get_analysis_history"}
WriteOps == {"create_prompt", "update_prompt", "delete_prompt"}

\* The whitelist the specification gives each operation
Whitelist(op) ==
    IF op \in WriteOps THEN {"ManageRealm", "ManageWebhooks"}
    ELSE {"ManageRealm", "ManageWebhooks", "ViewWebhooks"}

\* A service call that reached its policy check with both lookups succeeding
PolicyDone(r) ==
    /\ req[r].route = "psvc" /\ pc[r] = "done"
    /\ req[r].fault = "none" /\ NamesExistingRealm(r)

(* C12: for every effective permission set P, can_analyze_food, can_view_analysis
   and can_view_prompt grant iff P meets {ManageRealm, ManageWebhooks, ViewWebhooks};
   can_create_prompt, can_update_prompt and can_delete_prompt grant iff P meets
   {ManageRealm, ManageWebhooks}; can_view_analysis equals can_analyze_food. *)
C12_WhitelistDecides ==
    /\ \A r \in Reqs :
          PolicyDone(r) =>
              /\ hist[r].policy \in {"granted", "denied"}
              /\ hist[r].policy = "granted" <=> req[r].perms \cap Whitelist(req[r].op) # {}
    /\ \A a, b \in Reqs :
          (PolicyDone(a) /\ PolicyDone(b) /\ req[a].perms = req[b].perms
              /\ req[a].op = "analyze_food" /\ req[b].op = "get_analysis_history") =>
                  hist[a].policy = hist[b].policy

C12_Witness ==
    \E a, b \in Reqs :
        /\ PolicyDone(a) /\ req[a].op = "analyze_food"
        /\ req[a].perms = {"ViewWebhooks"} /\ hist[a].policy = "granted"
        /\ PolicyDone(b) /\ req[b].op = "create_prompt"
        /\ req[b].perms = {"ViewWebhooks", "ViewUsers"} /\ hist[b].policy = "denied"

(* C13: every can_<op> is monotone in the permission set: a call granted under P1
   is granted under every P2 that contains P1. *)
C13_Monotone ==
    \A a, b \in Reqs :
        (PolicyDone(a) /\ PolicyDone(b) /\ req[a].op = req[b].op
            /\ req[a].perms \subseteq req[b].perms /\ hist[a].policy = "granted") =>
                hist[b].policy = "granted"

C13_Witness ==
    \E a, b \in Reqs :
        /\ PolicyDone(a) /\ PolicyDone(b) /\ req[a].op = "update_prompt"
        /\ req[b].op = "update_prompt"
        /\ req[a].perms = {"ManageWebhooks"}
        /\ req[b].perms = {"ManageWebhooks", "ViewUsers"}
        /\ hist[a].policy = "granted" /\ hist[b].policy = "granted"

(* C14: read whitelists contain the write whitelists: whenever can_create_prompt,
   can_update_prompt or can_delete_prompt grants, can_view_prompt grants for the
   same caller and realm. *)
C14_ReadCoversWrite ==
    \A a, b \in Reqs :
        (PolicyDone(a) /\ PolicyDone(b) /\ req[a].perms = req[b].perms
            /\ req[a].path = req[b].path
            /\ req[a].op \in WriteOps /\ req[b].op \in {"get_prompts", "get_prompt"}
            /\ hist[a].policy = "granted") =>
                hist[b].policy = "granted"

C14_Witness ==
    \E a, b \in Reqs :
        /\ PolicyDone(a) /\ PolicyDone(b) /\ req[a].perms = {"ManageRealm"}
        /\ req[b].perms = {"ManageRealm"}
        /\ req[a].op = "delete_prompt" /\ req[b].op = "get_prompts"
        /\ hist[a].policy = "granted" /\ hist[b].policy = "granted"

\* Request r ends in this step
Ends(r) == pc[r] # "done" /\ pc'[r] = "done"

(* C15: a caller whose effective permissions are exactly {ViewWebhooks} gets
   Forbidden from create_prompt, update_prompt and delete_prompt with the prompt
   store unchanged, and is allowed by get_prompts and get_prompt. *)
C15_ViewOnlyCaller ==
    [][\A r \in Reqs :
          (req[r].route = "psvc" /\ Ends(r) /\ req[r].perms = {"ViewWebhooks"}
              /\ req[r].fault = "none" /\ NamesExistingRealm(r)) =>
                /\ req[r].op \in WriteOps =>
                      /\ resp'[r].status = "403"
                      /\ prompts' = prompts
                      /\ ~hist'[r].touched
                /\ req[r].op \in {"get_prompts", "get_prompt"} =>
                      /\ resp'[r].status = "200"
                      /\ hist'[r].policy = "granted"]_vars

C15_Witness ==
    \E a, b \in Reqs :
        /\ PolicyDone(a) /\ PolicyDone(b)
        /\ req[a].perms = {"ViewWebhooks"} /\ req[b].perms = {"ViewWebhooks"}
        /\ req[a].op = "delete_prompt" /\ resp[a].status = "403"
        /\ req[b].op = "get_prompt" /\ resp[b].status = "200"

(* C16: when resolving the user behind the identity or looking up its permissions
   fails, can_<op> returns that error and never Ok(true), and the guarded operation
   ends with an error without reading or writing tenant data. *)
C16_LookupErrorNeverGrants ==
    [][\A r \in Reqs :
          (req[r].route = "psvc" /\ Ends(r) /\ req[r].fault # "none") =>
              /\ hist'[r].policy = "error"
              /\ ~hist'[r].touched
              /\ resp'[r].status \in {"403", "500"}
              /\ UNCHANGED data]_vars

C16_Witness ==
    \E a, b \in Reqs :
        /\ req[a].route = "psvc" /\ req[a].fault = "user" /\ pc[a] = "done"
        /\ req[a].op = "create_prompt"
        /\ req[b].route = "psvc" /\ req[b].fault = "permissions" /\ pc[b] = "done"
        /\ req[b].op = "analyze_food"

\* What the specification lets through: the object belongs to the realm named in
\* the path, or the caller's own realm is master
PathRealmAdmits(r) ==
    LET named == get_by_name(PathRealm(req[r].path))
        stored == CHOOSE f \in files : f.id = req[r].file_id
    IN \/ named # None /\ stored.realm_id = named[1].id
       \/ UserRealm(req[r].caller).name = "master"

(* C17: complete_upload, get_download_url and delete_file resolve the realm named
   in the request path and answer Forbidden, producing no URL and deleting nothing,
   unless the object's stored realm_id is that realm's id or the caller's own realm
   is master. *)
C17_PathRealmGuardsFiles ==
    [][\A r \in Reqs :
          (req[r].route = "file" /\ Ends(r)
              /\ (\E f \in files : f.id = req[r].file_id)
              /\ ~PathRealmAdmits(r)) =>
                  /\ resp'[r].status = "403"
                  /\ ~hist'[r].touched
                  /\ files' = files]_vars

\* A Bearer header with a token that is not empty
BearerWithToken(h) == h.present /\ h.scheme = "Bearer " /\ h.token # EmptyToken

\* The token is structurally broken: segment count, base64url, UTF-8 or claims JSON
StructurallyBroken(token) ==
    \/ Len(token) # 3
    \/ token[2] \in {"badb64", "badutf8", "badjson"}

(* C18: claims decoding of a bearer token returns InvalidToken, and no other error,
   for every structural failure: a segment count other than 3, a middle segment
   that is not unpadded base64url, bytes that are not UTF-8, text that does not
   parse as claims; a missing Bearer header yields TokenNotFound. *)
C18_StructuralErrorsAreInvalidToken ==
    \A r \in Reqs :
        (req[r].route = "jwt" /\ pc[r] = "done") =>
            LET h == req[r].auth
            IN /\ resp[r].status \in {"Ok", "InvalidToken", "TokenNotFound"}
               /\ (~h.present \/ h.scheme # "Bearer ") => resp[r].status = "TokenNotFound"
               /\ (BearerWithToken(h) /\ StructurallyBroken(h.token)) =>
                      resp[r].status = "InvalidToken"
               /\ (BearerWithToken(h) /\ ~StructurallyBroken(h.token)) =>
                      resp[r].status = "Ok"
               /\ (h.present /\ h.scheme = "Bearer " /\ h.token = EmptyToken) =>
                      resp[r].status \in {"InvalidToken", "TokenNotFound"}

C18_Witness ==
    \E a, b \in Reqs :
        /\ req[a].route = "jwt" /\ req[a].auth = Bearer(BadUtf8Token)
        /\ resp[a].status = "InvalidToken"
        /\ req[b].route = "jwt" /\ req[b].auth = NoHeader
        /\ resp[b].status = "TokenNotFound"

\* GET /realms/{realm}/devices/{device_id} with only X-Device-Id, equal to the path's
\* device id, to an existing realm
DeviceOnlyGet(r) ==
    /\ req[r].route = "device" /\ req[r].auth = NoHeader
    /\ req[r].dev = Some(PathDevice(req[r].path))
    /\ NamesExistingRealm(r)

(* C19: a GET to /realms/{realm}/devices/{device_id} carrying only X-Device-Id equal
   to the path device id, for an existing realm, answers 200 with the DeviceProfile
   of (realm id, device id), created if there was none; a second identical request
   answers 200 with the same profile id. *)
C19_DeviceGetProvisions ==
    /\ \A r \in Reqs :
          (DeviceOnlyGet(r) /\ pc[r] = "done") =>
              /\ resp[r].status = "200"
              /\ \E p \in profiles :
                    /\ hist[r].profile = Some(p.id)
                    /\ p.realm_id = RealmIdNamed(r)
                    /\ p.device_id = PathDevice(req[r].path)
    /\ \A a, b \in Reqs :
          (DeviceOnlyGet(a) /\ DeviceOnlyGet(b) /\ req[a] = req[b]
              /\ pc[a] = "done" /\ pc[b] = "done") =>
                  hist[a].profile = hist[b].profile

CreateStages == {"goc_create_user", "goc_create_profile", "dm_create_user",
                 "dm_create_profile", "ri_create_user", "ri_create_profile"}

\* Request r's create is refused in this step as already existing: r leaves its
\* create stage and nothing is inserted
CreateRefused(r) ==
    /\ pc[r] \in CreateStages /\ pc'[r] # pc[r]
    /\ store' = store

(* C20: when two concurrent first-contact requests for the same (realm, device_id)
   both miss the lookup and the loser's user or profile creation fails as already
   existing, the loser's request still resolves to the winner's existing profile
   instead of failing. *)
C20_LoserUsesWinnersProfile ==
    [][\A r \in Reqs :
          CreateRefused(r) =>
              /\ resp'[r].status # "500"
              /\ \E p \in ProfilesFor(loc[r].realm_id, loc[r].device_id) :
                    hist'[r].profile = Some(p.id)]_vars

\* The device middleware let request r through: its DeviceContext is published
LetThrough(r) == req[r].route \in DmRoutes /\ ext[r].device # None

\* The stored profiles of the pair the device middleware works with for r
MiddlewareProfiles(r) ==
    { p \in profiles : p.realm_id = RealmIdNamed(r)
                        /\ p.device_id = DeviceIdOrDefault(req[r].dev) }

(* C21: whenever the device middleware lets a request through, the DeviceContext it
   published equals the stored profile for (path realm, X-Device-Id value or the
   sentinel default_device when the header is absent), with or without a bearer
   Identity; all header-less requests in one realm resolve to the same single
   profile and user. *)
C21_MiddlewarePublishesStoredProfile ==
    /\ \A r \in Reqs :
          LetThrough(r) =>
              \E p \in MiddlewareProfiles(r) :
                  ext[r].device = Some([device_id |-> p.device_id, user_id |-> p.user_id])
    /\ \A a, b \in Reqs :
          (LetThrough(a) /\ LetThrough(b) /\ req[a].dev = None /\ req[b].dev = None
              /\ PathRealm(req[a].path) = PathRealm(req[b].path)) =>
                  /\ ext[a].device = ext[b].device
                  /\ Cardinality(MiddlewareProfiles(a)) = 1

\* The device middleware has taken up request r
MiddlewareRan(r) == req[r].route \in DmRoutes /\ pc[r] # "dm"

(* C22: on every route layered with both middlewares the auth middleware runs
   before the device middleware for each request, so an Identity attached by bearer
   resolution is visible to the device middleware, which then records the bearer
   identity's id as created_by of a profile it creates. *)
C22_AuthBeforeDeviceMiddleware ==
    \A r \in Reqs :
        MiddlewareRan(r) =>
            /\ hist[r].authOut # "pending"
            /\ (ValidBearer(req[r].auth) /\ "dm:profile_create" \in hist[r].ops) =>
                   \A p \in profiles :
                       hist[r].profile = Some(p.id) => p.created_by = Some(AliceId)

----------------------------------------------------------------------------
(* Query-string parsing: application/http/query_params.rs.
   A string is the sequence of its characters. *)

strip_prefix(s, p) ==
    IF Len(s) >= Len(p) /\ SubSeq(s, 1, Len(p)) = p
    THEN Some(SubSeq(s, Len(p) + 1, Len(s))) ELSE None

\* str::find for one character: the place of its first occurrence, counted from 1
find(s, c) ==
    LET hits == { i \in 1..Len(s) : s[i] = c }
    IN IF hits = {} THEN None
       ELSE Some(CHOOSE i \in hits : \A j \in hits : i <= j)

\* str::trim: what lies between the first and the last character that is not white space
trim(s) ==
    LET keep == { i \in 1..Len(s) : s[i] # " " }
    IN IF keep = {} THEN <<>>
       ELSE SubSeq(s, CHOOSE i \in keep : \A j \in keep : i <= j,
                      CHOOSE i \in keep : \A j \in keep : i >= j)

\* str::split on one character: "" gives one empty part, "a," gives "a" and ""
RECURSIVE split(_, _)
split(s, c) ==
    LET at == find(s, c)
    IN IF at = None THEN <<s>>
       ELSE <<SubSeq(s, 1, at[1] - 1)>> \o split(SubSeq(s, at[1] + 1, Len(s)), c)

\* str::parse::<i64>: an optional sign, then one digit or more, and nothing else.
\* The texts of the model are short, so the number stays far inside i64.
parse_i64(s) ==
    LET Digits == <<"0", "1", "2", "3", "4", "5", "6", "7", "8", "9">>
        IsDigit(c) == \E i \in 1..Len(Digits) : Digits[i] = c
        DigitValue(c) == (CHOOSE i \in 1..Len(Digits) : Digits[i] = c) - 1
        signed == s # <<>> /\ Head(s) \in {"+", "-"}
        digits == IF signed THEN Tail(s) ELSE s
        value[n \in 0..Len(digits)] ==
            IF n = 0 THEN 0 ELSE value[n - 1] * 10 + DigitValue(digits[n])
    IN IF digits = <<>> \/ \E i \in 1..Len(digits) : ~IsDigit(digits[i])
       THEN None
       ELSE Some(IF Head(s) = "-" THEN 0 - value[Len(digits)] ELSE value[Len(digits)])

FilterOperatorFromStrLenient(s) ==
    CASE s = <<"e", "q">> -> Ok("Eq")
      [] s = <<"n", "e">> -> Ok("Ne")
      [] s = <<"g", "t">> -> Ok("Gt")
      [] s = <<"g", "t", "e">> -> Ok("Gte")
      [] s = <<"l", "t">> -> Ok("Lt")
      [] s = <<"l", "t", "e">> -> Ok("Lte")
      [] s = <<"i", "n">> -> Ok("In")
      [] s = <<"l", "i", "k", "e">> -> Ok("Like")
      [] s = <<"i", "l", "i", "k", "e">> -> Ok("Ilike")
      [] OTHER -> Ok("Eq")

FilterOperator_from_str(s) ==
    CASE s = <<"e", "q">> -> Ok("Eq")
      [] s = <<"n", "e">> -> Ok("Ne")
      [] s = <<"g", "t">> -> Ok("Gt")
      [] s = <<"g", "t", "e">> -> Ok("Gte")
      [] s = <<"l", "t">> -> Ok("Lt")
      [] s = <<"l", "t", "e">> -> Ok("Lte")
      [] s = <<"i", "n">> -> Ok("In")
      [] s = <<"l", "i", "k", "e">> -> Ok("Like")
      [] s = <<"i", "l", "i", "k", "e">> -> Ok("Ilike")
      [] OTHER -> Err("()")

SortParamsFromStringUntrimmed(s) ==
    LET parts == split(s, ",")
        pushed(part) ==
            LET stripped == strip_prefix(part, <<"-">>)
            IN IF part = <<>> THEN <<>>
               ELSE IF stripped # None
                    THEN << [field |-> stripped[1], direction |-> "Desc"] >>
                    ELSE << [field |-> part, direction |-> "Asc"] >>
        sorts[n \in 0..Len(parts)] ==
            IF n = 0 THEN <<>> ELSE sorts[n - 1] \o pushed(parts[n])
    IN sorts[Len(parts)]

\* SortParams::from_string: sorts[n] is the vector after n parts
SortParams_from_string(s) ==
    LET parts == split(s, ",")
        pushed(part) ==
            LET stripped == strip_prefix(part, <<"-">>)
            IN IF part = <<>> THEN <<>>
               ELSE IF stripped # None
                    THEN << [field |-> stripped[1], direction |-> "Desc"] >>
                    ELSE << [field |-> part, direction |-> "Asc"] >>
        sorts[n \in 0..Len(parts)] ==
            IF n = 0 THEN <<>> ELSE sorts[n - 1] \o pushed(trim(parts[n]))
    IN sorts[Len(parts)]

PaginationParamsNewNoCeiling(offset, limit) ==
    LET unwrap_or(option, default) == IF option = None THEN default ELSE option[1]
        max(a, b) == IF a >= b THEN a ELSE b
    IN [offset |-> max(unwrap_or(offset, 0), 0),
        limit  |-> max(unwrap_or(limit, 20), 1)]

PaginationParams_new(offset, limit) ==
    LET unwrap_or(option, default) == IF option = None THEN default ELSE option[1]
        max(a, b) == IF a >= b THEN a ELSE b
        clamp(x, lo, hi) == IF x < lo THEN lo ELSE IF x > hi THEN hi ELSE x
    IN [offset |-> max(unwrap_or(offset, 0), 0),
        limit  |-> clamp(unwrap_or(limit, 20), 1, 100)]

\* The keys from_query_map looks for: the prefix of a filter key, and three whole keys
QueryKey ==
    [filter |-> <<"f", "i", "l", "t", "e", "r", "[">>,
     sort   |-> <<"s", "o", "r", "t">>,
     offset |-> <<"o", "f", "f", "s", "e", "t">>,
     limit  |-> <<"l", "i", "m", "i", "t">>]

\* One turn of the loop of from_query_map
parse_entry(acc, key, value) ==
    LET filter_key == strip_prefix(key, QueryKey.filter)
    IN IF filter_key # None
       THEN LET end_bracket == find(filter_key[1], "]")
            IN IF end_bracket = None THEN acc
               ELSE LET field == SubSeq(filter_key[1], 1, end_bracket[1] - 1)
                        remaining == SubSeq(filter_key[1], end_bracket[1] + 1,
                                            Len(filter_key[1]))
                    IN IF remaining = <<>>
                       THEN [acc EXCEPT !.filter =
                                Append(@, [field |-> field, operator |-> "Eq",
                                           value |-> value])]
                       ELSE IF Head(remaining) = "[" /\ remaining[Len(remaining)] = "]"
                            THEN LET operator == FilterOperator_from_str(
                                         SubSeq(remaining, 2, Len(remaining) - 1))
                                 IN IF operator[1] = "ok"
                                    THEN [acc EXCEPT !.filter =
                                            Append(@, [field |-> field,
                                                       operator |-> operator[2],
                                                       value |-> value])]
                                    ELSE acc
                            ELSE acc
       ELSE IF key = QueryKey.sort
            THEN [acc EXCEPT !.sort = SortParams_from_string(value)]
            ELSE IF key = QueryKey.offset
                 THEN LET val == parse_i64(value)
                      IN IF val # None THEN [acc EXCEPT !.offset = val] ELSE acc
                 ELSE IF key = QueryKey.limit
                      THEN LET val == parse_i64(value)
                           IN IF val # None THEN [acc EXCEPT !.limit = val] ELSE acc
                      ELSE acc

\* QueryParams::from_query_map, the map's entries visited in the given order
from_query_map(query_map, order) ==
    LET acc[n \in 0..Len(order)] ==
            IF n = 0
            THEN [filter |-> <<>>, sort |-> <<>>, offset |-> None, limit |-> None]
            ELSE parse_entry(acc[n - 1], order[n], query_map[order[n]])
        parsed == acc[Len(order)]
    IN [filter |-> parsed.filter, sort |-> parsed.sort,
        pagination |-> PaginationParams_new(parsed.offset, parsed.limit)]

\* Query maps: of offset and limit, each absent or one of NumberTexts; of sort; of
\* one key that begins like a filter key, well formed or not, or nearly does; of two
\* such keys where one is well formed
QueryInputs ==
    LET NumberTexts ==
            { <<>>, <<"0">>, <<"1">>, <<"5", "0">>, <<"1", "0", "0">>, <<"1", "0", "1">>,
            <<"-", "5">>, <<"-">>, <<"+", "7">>, <<"x">>, <<" ", "5">>, <<"5", "x">> }
        SortTexts ==
            { <<>>, <<"a">>, <<"-", "a">>, <<"a", ",", "b">>, <<"-", "a", ",">>,
            <<"a", ",", "-">>, <<",", "b">>, <<",">>, <<"a", ",", ",">>,
            <<" ", "a">>, <<" ", "-", "a">>, <<" ">>, <<"a", ",", " ">>,
            <<"-", " ", "a">>, <<"-">>, <<"-", "b", ",", "a">> }
        FilterKeys ==
            { QueryKey.filter \o <<"a", "]">>,
            QueryKey.filter \o <<"]">>,
            QueryKey.filter \o <<"a", "[", "b", "]">>,
            QueryKey.filter \o <<"a", "]", "[", "e", "q", "]">>,
            QueryKey.filter \o <<"a", "]", "[", "n", "e", "]">>,
            QueryKey.filter \o <<"a", "]", "[", "g", "t", "]">>,
            QueryKey.filter \o <<"b", "]", "[", "g", "t", "e", "]">>,
            QueryKey.filter \o <<"a", "]", "[", "l", "t", "]">>,
            QueryKey.filter \o <<"a", "]", "[", "l", "t", "e", "]">>,
            QueryKey.filter \o <<"a", "]", "[", "i", "n", "]">>,
            QueryKey.filter \o <<"a", "]", "[", "l", "i", "k", "e", "]">>,
            QueryKey.filter \o <<"a", "]", "[", "i", "l", "i", "k", "e", "]">>,
            QueryKey.filter \o <<"a", "]", "[", "x", "x", "]">>,
            QueryKey.filter \o <<"a", "]", "[", "E", "Q", "]">>,
            QueryKey.filter \o <<"a", "]", "[", "]">>,
            QueryKey.filter \o <<"a", "]", "[", "e", "q">>,
            QueryKey.filter \o <<"a", "]", "e", "q">>,
            QueryKey.filter \o <<"a", "]", "]">>,
            QueryKey.filter \o <<"a", "]", "[", "b", "]", "[", "e", "q", "]">>,
            QueryKey.filter \o <<"a">>,
            <<"f", "i", "l", "t", "e", "r">>,
            <<"F", "i", "l", "t", "e", "r", "[", "a", "]">>,
            <<"x">> \o QueryKey.filter \o <<"a", "]">> }
        FilterTexts == { <<"5">>, <<"S", "A", "F", "E">> }
        PaginationMaps ==
            { [k \in keys |-> IF k = QueryKey.offset THEN o ELSE l] :
                keys \in SUBSET {QueryKey.offset, QueryKey.limit},
                o \in NumberTexts, l \in NumberTexts }
        SortMaps ==
            { [k \in keys |-> IF k = QueryKey.sort THEN s ELSE <<"5">>] :
                keys \in { {QueryKey.sort}, {QueryKey.sort, QueryKey.limit} },
                s \in SortTexts }
        FilterMaps ==
            { [k \in {key} |-> v] : key \in FilterKeys, v \in FilterTexts }
            \cup { [k \in {anchor, key} |-> IF k = anchor THEN v ELSE <<"5">>] :
                     anchor \in { QueryKey.filter \o <<"a", "]">>,
                                  QueryKey.filter \o <<"b", "]", "[", "g", "t", "e", "]">> },
                     key \in FilterKeys, v \in FilterTexts }
    IN { [route |-> "query", map |-> m] :
           m \in PaginationMaps \cup SortMaps \cup FilterMaps }

\* QueryParamsExt::parse_query_params: a handler parses its query map, a HashMap,
\* whose entries come in any order
parse_query_params(r) ==
    /\ pc[r] = "body"
    /\ req[r].route = "query"
    /\ LET keys == DOMAIN req[r].map
           n == Cardinality(keys)
       IN \E order \in { o \in [1..n -> keys] : \A i, j \in 1..n : o[i] = o[j] => i = j } :
             resp' = [resp EXCEPT ![r] =
                         [status |-> "200", by |-> "query",
                          params |-> from_query_map(req[r].map, order)]]
    /\ pc' = [pc EXCEPT ![r] = "done"]
    /\ UNCHANGED <<store, data, req, ext, loc, hist>>

SpecQuery == InitWith(QueryInputs) /\ [][\E r \in Reqs : parse_query_params(r)]_vars

\* The query map of request r has been parsed
Parsed(r) == req[r].route = "query" /\ pc[r] = "done"

\* The integers the texts of the model denote; the other texts denote none
Denotes ==
    { << <<"0">>, 0 >>, << <<"1">>, 1 >>, << <<"5">>, 5 >>, << <<"5", "0">>, 50 >>,
      << <<"1", "0", "0">>, 100 >>, << <<"1", "0", "1">>, 101 >>,
      << <<"-", "5">>, 0 - 5 >>, << <<"+", "7">>, 7 >> }

\* The integer supplied under key k of map m, or the default
Supplied(m, k, default) ==
    IF k \in DOMAIN m /\ \E d \in Denotes : d[1] = m[k]
    THEN (CHOOSE d \in Denotes : d[1] = m[k])[2]
    ELSE default

(* C23: pagination parsed from the query map always has offset >= 0 and
   1 <= limit <= 100: offset is the supplied integer or 0, floored at 0; limit is
   the supplied integer or 20, clamped into [1, 100]; a value that does not parse
   as an integer counts as not supplied. *)
C23_PaginationClamped ==
    \A r \in Reqs :
        Parsed(r) =>
            LET p == resp[r].params.pagination
                offset == Supplied(req[r].map, QueryKey.offset, 0)
                limit == Supplied(req[r].map, QueryKey.limit, 20)
            IN /\ p.offset >= 0 /\ p.limit >= 1 /\ p.limit <= 100
               /\ p.offset = (IF offset < 0 THEN 0 ELSE offset)
               /\ p.limit = (IF limit < 1 THEN 1 ELSE IF limit > 100 THEN 100 ELSE limit)

\* A limit above the ceiling, a negative offset and an unparsable value were parsed
C23_Witness ==
    /\ \E r \in Reqs : Parsed(r) /\ QueryKey.limit \in DOMAIN req[r].map
                       /\ req[r].map[QueryKey.limit] = <<"1", "0", "1">>
                       /\ resp[r].params.pagination.limit = 100
    /\ \E r \in Reqs : Parsed(r) /\ QueryKey.offset \in DOMAIN req[r].map
                       /\ req[r].map[QueryKey.offset] \in { <<"-", "5">>, <<"5", "x">> }
                       /\ resp[r].params.pagination.offset = 0

\* The comma-separated parts of text v, in order: what lies between one cut and the next
CommaParts(v) ==
    LET cuts == {0} \cup { i \in 1..Len(v) : v[i] = "," } \cup {Len(v) + 1}
        nth(k) == CHOOSE c \in cuts : Cardinality({ d \in cuts : d < c }) = k - 1
    IN [k \in 1..(Cardinality(cuts) - 1) |-> SubSeq(v, nth(k) + 1, nth(k + 1) - 1)]

NonEmptyText(part) == part # <<>>

\* A part without the white space around it
RECURSIVE Bare(_)
Bare(part) ==
    IF part = <<>> THEN part
    ELSE IF Head(part) = " " THEN Bare(Tail(part))
    ELSE IF part[Len(part)] = " " THEN Bare(SubSeq(part, 1, Len(part) - 1))
    ELSE part

\* The SortSpec a part stands for: a leading '-' asks for Desc on the rest
SpecOfPart(part) ==
    IF Head(part) = "-" THEN [field |-> Tail(part), direction |-> "Desc"]
    ELSE [field |-> part, direction |-> "Asc"]

\* Request r carried a sort text and has been parsed
SortParsed(r) == Parsed(r) /\ QueryKey.sort \in DOMAIN req[r].map

(* C24, as stated: SortParams::from_string yields exactly one SortSpec per non-empty
   comma-separated part of the sort string, in input order; a part with a leading
   '-' gives Desc on the remaining field name, any other part gives Asc on the part
   itself. *)
C24_OneSpecPerPart ==
    \A r \in Reqs :
        SortParsed(r) =>
            LET parts == SelectSeq(CommaParts(req[r].map[QueryKey.sort]), NonEmptyText)
            IN resp[r].params.sort = [i \in 1..Len(parts) |-> SpecOfPart(parts[i])]

(* C24, amended: SortParams::from_string first strips the white space around each
   comma-separated part, and yields exactly one SortSpec per part that is then
   non-empty, in input order; a stripped part with a leading '-' gives Desc on the
   remaining field name, any other gives Asc on the stripped part. *)
C24_OneSpecPerTrimmedPart ==
    \A r \in Reqs :
        SortParsed(r) =>
            LET all == CommaParts(req[r].map[QueryKey.sort])
                parts == SelectSeq([i \in 1..Len(all) |-> Bare(all[i])], NonEmptyText)
            IN resp[r].params.sort = [i \in 1..Len(parts) |-> SpecOfPart(parts[i])]

\* A part with white space before its '-', and a part of white space alone, were parsed
C24_Witness ==
    /\ \E r \in Reqs : SortParsed(r)
                       /\ req[r].map[QueryKey.sort] = <<" ", "-", "a">>
                       /\ resp[r].params.sort = << [field |-> <<"a">>, direction |-> "Desc"] >>
    /\ \E r \in Reqs : SortParsed(r)
                       /\ req[r].map[QueryKey.sort] = <<"a", ",", " ">>
                       /\ Len(resp[r].params.sort) = 1

\* Field names: texts without a closing bracket
FieldTexts == { <<>>, <<"a">>, <<"b">>, <<"a", "[", "b">> }

\* The nine operator names and the operators they name
OperatorNames ==
    { << <<"e", "q">>, "Eq" >>, << <<"n", "e">>, "Ne" >>, << <<"g", "t">>, "Gt" >>,
      << <<"g", "t", "e">>, "Gte" >>, << <<"l", "t">>, "Lt" >>,
      << <<"l", "t", "e">>, "Lte" >>, << <<"i", "n">>, "In" >>,
      << <<"l", "i", "k", "e">>, "Like" >>, << <<"i", "l", "i", "k", "e">>, "Ilike" >> }

\* The shapes filter[f] and filter[f][op] of key k, as pairs <<f, operator>>
ShapesOf(k) ==
    { <<f, "Eq">> : f \in { g \in FieldTexts : k = QueryKey.filter \o g \o <<"]">> } }
    \cup { <<fo[1], fo[2][2]>> :
             fo \in { x \in FieldTexts \X OperatorNames :
                        k = QueryKey.filter \o x[1] \o <<"]", "[">> \o x[2][1] \o <<"]">> } }

\* The condition key k of map m stands for
ConditionOf(k, m) ==
    LET shape == CHOOSE s \in ShapesOf(k) : TRUE
    IN [field |-> shape[1], operator |-> shape[2], value |-> m[k]]

(* C25: QueryParams::from_query_map turns a key filter[f] into the condition
   (f, Eq, value) and a key filter[f][op] into (f, op, value) when op is one of eq,
   ne, gt, gte, lt, lte, in, like, ilike; a key with an unrecognised operator or a
   malformed bracket form produces no condition, and no other key produces one. *)
C25_FilterKeysBecomeConditions ==
    \A r \in Reqs :
        Parsed(r) =>
            LET m == req[r].map
                shaped == { k \in DOMAIN m : ShapesOf(k) # {} }
                n == Cardinality(shaped)
            IN /\ \A k \in DOMAIN m : Cardinality(ShapesOf(k)) <= 1
               /\ \E ks \in [1..n -> shaped] :
                     /\ \A i, j \in 1..n : ks[i] = ks[j] => i = j
                     /\ resp[r].params.filter = [i \in 1..n |-> ConditionOf(ks[i], m)]

\* A plain key, a key with an operator, and keys that yield nothing were parsed
C25_Witness ==
    /\ \E r \in Reqs :
          /\ Parsed(r)
          /\ DOMAIN req[r].map = { QueryKey.filter \o <<"a", "]">>,
                                   QueryKey.filter \o <<"b", "]", "[", "g", "t", "e", "]">> }
          /\ Len(resp[r].params.filter) = 2
          /\ \E i \in 1..2 : resp[r].params.filter[i] =
                [field |-> <<"b">>, operator |-> "Gte", value |-> <<"5">>]
    /\ \E r \in Reqs :
          /\ Parsed(r)
          /\ DOMAIN req[r].map \in { {QueryKey.filter \o <<"a", "]", "[", "x", "x", "]">>},
                                     {QueryKey.filter \o <<"a", "]", "]">>} }
          /\ resp[r].params.filter = <<>>

(* C26: every DeviceProfile created by any provisioning path has created_by equal
   either to the acting identity's id, when an identity is attached to the request,
   or to the id of the user newly created for that profile, and never to any other
   user's id. *)
C26_CreatedByActorOrSelf ==
    [][\A p \in profiles' \ profiles :
          \A r \in Reqs :
              (hist'[r].profile = Some(p.id) /\ hist[r].profile # Some(p.id)) =>
                  p.created_by = (IF ext[r].identity # None
                                  THEN Some(ext[r].identity[1])
                                  ELSE Some(p.user_id))]_vars

\* Request r inserted a user and has ended without inserting a profile
EndedBetweenInserts(r) ==
    /\ pc[r] = "done"
    /\ hist[r].ops \cap {"goc:user_create", "dm:user_create", "ri:user_create"} # {}
    /\ hist[r].ops \cap {"goc:profile_create", "dm:profile_create", "ri:profile_create"} = {}

(* C27: user creation and device-profile creation are not one atomic unit: when a
   provisioning request is cancelled, or its profile insert fails, after the user
   insert succeeded, the request ends in error and the created user stays in the
   store with no DeviceProfile referencing it. *)
C27_OrphanUserStays ==
    \A r \in Reqs :
        EndedBetweenInserts(r) =>
            /\ resp[r].status \in {"500", "cancelled"}
            /\ \E u \in users : u.id = loc[r].user
            /\ \A p \in profiles : p.user_id # loc[r].user

\* A profile insert failed after the request's user insert had succeeded
C27_Witness ==
    \E r \in Reqs :
        /\ EndedBetweenInserts(r)
        /\ resp[r].status = "500"
        /\ \E u \in users : u.id = loc[r].user

----------------------------------------------------------------------------
(* Food reactions by id: GET, PUT and DELETE /realms/{realm_name}/food-reactions/
   {reaction_id}, past both middlewares. A symptom list is the set of its codes. *)

\* Requests of the device users 3 and 4 for the reactions 71 and 72; an update
\* request carries each of its four fields or omits it
ReactionInputs ==
    LET Call(op, realm_name, user_id, reaction_id, body) ==
            [route |-> "rx", op |-> op, auth |-> NoHeader, dev |-> Some("d1"),
             path |-> RoutePath("rx", realm_name), user_id |-> user_id,
             reaction_id |-> reaction_id, body |-> body]
        Bodies == [feeling : {None, Some("GREAT")},
                   symptom_onset : {None, Some("NEXT_DAY")},
                   symptoms : {None, Some({}), Some({"BLOATING"})},
                   notes : {None, Some("n1")}]
        NoBody == [feeling |-> None, symptom_onset |-> None, symptoms |-> None,
                   notes |-> None]
    IN { Call(op, rn, u, id, NoBody) :
            op \in {"get", "delete"}, rn \in RealmNames, u \in {3, 4}, id \in {71, 72} }
       \cup { Call("update", rn, u, id, b) :
                rn \in RealmNames, u \in {3, 4}, id \in {71, 72}, b \in Bodies }

\* Reaction 71 of user 3 in master and reaction 72 of user 4 in acme are stored; the
\* device middleware has published each request's DeviceContext
InitReactions ==
    /\ users = InitUsers
    /\ profiles = {}
    /\ nextId = 5
    /\ prompts = {}
    /\ reactions =
          { [id |-> 71, realm_id |-> "rid_master", user_id |-> 3, feeling |-> "BAD",
             symptom_onset |-> "LT_1H", notes |-> Some("n0"), updated_by |-> 3],
            [id |-> 72, realm_id |-> "rid_acme", user_id |-> 4, feeling |-> "OKAY",
             symptom_onset |-> "H1_3H", notes |-> None, updated_by |-> 4] }
    /\ symptoms =
          { [reaction_id |-> 71, symptom_code |-> "NAUSEA"],
            [reaction_id |-> 71, symptom_code |-> "RASH"],
            [reaction_id |-> 72, symptom_code |-> "NAUSEA"] }
    /\ analyses = {}
    /\ files = {}
    /\ req \in [Reqs -> ReactionInputs]
    /\ pc = [r \in Reqs |-> "body"]
    /\ ext = [r \in Reqs |->
                [identity |-> Some(req[r].user_id),
                 device |-> Some([device_id |-> "d1", user_id |-> req[r].user_id])]]
    /\ resp = [r \in Reqs |-> NoResp]
    /\ loc = [r \in Reqs |->
                [realm_id |-> "", device_id |-> "", user |-> 0, admin |-> 0,
                 read |-> None, reaction |-> None]]
    /\ hist = [r \in Reqs |-> NoHist]

GetReactionByIdAnyUser(reaction_id, realm_id, user_id) ==
    LET found == { x \in reactions : x.id = reaction_id /\ x.realm_id = realm_id }
    IN IF found = {} THEN None
       ELSE LET row == CHOOSE x \in found : TRUE
                codes == { s.symptom_code : s \in { t \in symptoms : t.reaction_id = row.id } }
            IN Some([f \in DOMAIN row \cup {"symptoms"} |->
                        IF f = "symptoms" THEN codes ELSE row[f]])

\* FoodReactionRepository::get_by_id: the row of that id, realm and user, with the
\* codes of its symptom rows
get_reaction_by_id(reaction_id, realm_id, user_id) ==
    LET found == { x \in reactions : x.id = reaction_id /\ x.realm_id = realm_id
                                     /\ x.user_id = user_id }
    IN IF found = {} THEN None
       ELSE LET row == CHOOSE x \in found : TRUE
                codes == { s.symptom_code : s \in { t \in symptoms : t.reaction_id = row.id } }
            IN Some([f \in DOMAIN row \cup {"symptoms"} |->
                        IF f = "symptoms" THEN codes ELSE row[f]])

\* FoodReaction::update
FoodReaction_update(self, feeling, symptom_onset, new_symptoms, notes, updated_by) ==
    [self EXCEPT !.feeling = IF feeling # None THEN feeling[1] ELSE @,
                 !.symptom_onset = IF symptom_onset # None THEN symptom_onset[1] ELSE @,
                 !.symptoms = IF new_symptoms # None THEN new_symptoms[1] ELSE @,
                 !.notes = IF notes # None THEN Some(notes[1]) ELSE @,
                 !.updated_by = updated_by]

\* The handlers' common opening: the realm of the path, then get_by_id for the
\* DeviceContext's user
ReadReaction(r) ==
    LET realm == get_by_name(PathRealm(req[r].path))
    IN IF realm = None THEN None
       ELSE get_reaction_by_id(req[r].reaction_id, realm[1].id, ext[r].device[1].user_id)

get_reaction(r) ==
    /\ pc[r] = "body"
    /\ req[r].route = "rx" /\ req[r].op = "get"
    /\ IF ReadReaction(r) = None THEN Respond(r, "404") ELSE Respond(r, "200")
    /\ UNCHANGED <<store, data, req, ext, loc, hist>>

\* update_reaction up to reaction.update(..)
update_reaction(r) ==
    /\ pc[r] = "body"
    /\ req[r].route = "rx" /\ req[r].op = "update"
    /\ LET found == ReadReaction(r)
           body == req[r].body
       IN IF found = None
          THEN Respond(r, "404") /\ UNCHANGED loc
          ELSE /\ loc' = [loc EXCEPT ![r].read = found,
                                     ![r].reaction =
                                        Some(FoodReaction_update(found[1], body.feeling,
                                                body.symptom_onset, body.symptoms,
                                                body.notes, ext[r].identity[1]))]
               /\ pc' = [pc EXCEPT ![r] = "rx_save"]
               /\ UNCHANGED resp
    /\ UNCHANGED <<store, data, req, ext, hist>>

\* FoodReactionRepository::update_reaction(reaction, request.symptoms.unwrap_or_default()):
\* the row is written, the symptom rows are deleted and those of the argument inserted
UpdateReactionSave(r) ==
    /\ pc[r] = "rx_save"
    /\ LET reaction == loc[r].reaction[1]
           new_symptoms == IF req[r].body.symptoms = None THEN {}
                           ELSE req[r].body.symptoms[1]
       IN IF \A x \in reactions : x.id # reaction.id
          THEN Fail(r, "500", "handler") /\ UNCHANGED <<reactions, symptoms>>
          ELSE /\ reactions' = { x \in reactions : x.id # reaction.id }
                               \cup { [f \in DOMAIN reaction \ {"symptoms"} |-> reaction[f]] }
               /\ symptoms' = { s \in symptoms : s.reaction_id # reaction.id }
                              \cup { [reaction_id |-> reaction.id, symptom_code |-> c] :
                                       c \in new_symptoms }
               /\ Respond(r, "200")
    /\ UNCHANGED <<store, prompts, analyses, files, req, ext, loc, hist>>

\* delete_reaction up to the repository's delete
delete_reaction(r) ==
    /\ pc[r] = "body"
    /\ req[r].route = "rx" /\ req[r].op = "delete"
    /\ LET found == ReadReaction(r)
       IN IF found = None
          THEN Respond(r, "404") /\ UNCHANGED loc
          ELSE /\ loc' = [loc EXCEPT ![r].realm_id = found[1].realm_id]
               /\ pc' = [pc EXCEPT ![r] = "rx_delete"]
               /\ UNCHANGED resp
    /\ UNCHANGED <<store, data, req, ext, hist>>

\* FoodReactionRepository::delete_reaction: the symptom rows of the id, then the row
\* of that id, realm and user
DeleteReactionRows(r) ==
    /\ pc[r] = "rx_delete"
    /\ symptoms' = { s \in symptoms : s.reaction_id # req[r].reaction_id }
    /\ reactions' = { x \in reactions :
                        ~(x.id = req[r].reaction_id /\ x.realm_id = loc[r].realm_id
                          /\ x.user_id = ext[r].device[1].user_id) }
    /\ Respond(r, "204")
    /\ UNCHANGED <<store, prompts, analyses, files, req, ext, loc, hist>>

SpecReactions ==
    InitReactions /\ [][\E r \in Reqs : \/ get_reaction(r)
                                        \/ update_reaction(r)
                                        \/ UpdateReactionSave(r)
                                        \/ delete_reaction(r)
                                        \/ DeleteReactionRows(r)]_vars

\* The codes of the stored symptom rows of reaction id
StoredCodes(id) == { s.symptom_code : s \in { t \in symptoms : t.reaction_id = id } }

\* Request r saves its update in this step
Saves(r) == pc[r] = "rx_save" /\ pc'[r] = "done" /\ resp'[r].status = "200"

(* C28: a partial update leaves omitted fields unchanged: after update_reaction with
   symptoms omitted (None) in the request, the reaction's stored symptom list is the
   same as before the update, just as feeling, symptom_onset and notes are kept
   when omitted. *)
C28_OmittedFieldsKept ==
    [][\A r \in Reqs :
          Saves(r) =>
              LET before == loc[r].read[1]
                  after == CHOOSE x \in reactions' : x.id = before.id
                  body == req[r].body
              IN /\ body.symptoms = None =>
                        { s.symptom_code : s \in { t \in symptoms' : t.reaction_id = before.id } }
                            = before.symptoms
                 /\ body.feeling = None => after.feeling = before.feeling
                 /\ body.symptom_onset = None => after.symptom_onset = before.symptom_onset
                 /\ body.notes = None => after.notes = before.notes]_vars

\* The path realm and the DeviceContext user of request r are those of reaction x
OwnsReaction(r, x) ==
    /\ \E rl \in Realms : rl.name = PathRealm(req[r].path) /\ rl.id = x.realm_id
    /\ ext[r].device[1].user_id = x.user_id

(* C29: a food reaction is returned, updated or deleted only by a request whose
   path realm id and DeviceContext user id equal the reaction's realm_id and
   user_id; any other request for that reaction id gets NotFound and leaves the
   reaction row and its symptom rows unchanged. *)
C29_ReactionOnlyForItsOwner ==
    [][\A r \in Reqs :
          pc[r] # pc'[r] =>
              \A x \in reactions :
                  (x.id = req[r].reaction_id /\ ~OwnsReaction(r, x)) =>
                      /\ pc'[r] = "done"
                      /\ resp'[r].status = "404"
                      /\ x \in reactions'
                      /\ { s \in symptoms' : s.reaction_id = x.id }
                            = { s \in symptoms : s.reaction_id = x.id }]_vars

\* Another user's request for a stored reaction got NotFound and the reaction is
\* unchanged, while its owner's request in the other realm went through
C29_Witness ==
    /\ \E r \in Reqs :
          /\ pc[r] = "done" /\ resp[r].status = "404" /\ req[r].op \in {"update", "delete"}
          /\ \E x \in reactions :
                /\ x.id = req[r].reaction_id /\ x.id = 71
                /\ PathRealm(req[r].path) = "master" /\ ext[r].device[1].user_id # x.user_id
                /\ x.feeling = "BAD" /\ StoredCodes(x.id) = {"NAUSEA", "RASH"}
    /\ \E q \in Reqs :
          pc[q] = "done" /\ resp[q].status = "204" /\ req[q].reaction_id = 72

\* Request r, a call of op, returns in this step
Returns(r, op) == req[r].route = "psvc" /\ req[r].op = op /\ pc[r] = "body" /\ pc'[r] = "done"

\* Prompt p is soft-deleted and is the prompt request r names, in its realm
NamesDeleted(r, p) ==
    /\ p.is_deleted
    /\ req[r].prompt_id = Some(p.id)
    /\ \E rl \in Realms : rl.name = PathRealm(req[r].path) /\ rl.id = p.realm_id

(* C30: prompt deletion is a soft delete scoped to the realm: after delete_prompt
   succeeds for (prompt_id, realm) the row is retained with is_deleted = true, and
   from then on get_prompt returns None, update_prompt returns NotFound, get_prompts
   without include_deleted omits it and analyze_food with that prompt_id returns
   NotFound; a delete_prompt issued under a different realm leaves the prompt
   unchanged. *)
C30_SoftDeleteScopedToRealm ==
    [][\A r \in Reqs :
          /\ \A p \in prompts :
                \E q \in prompts' : q.id = p.id /\ (p.is_deleted => q.is_deleted)
          /\ (Returns(r, "delete_prompt") /\ resp'[r].status = "200") =>
                \A p \in prompts :
                    p.id = req[r].prompt_id[1] =>
                        IF \E rl \in Realms : rl.name = PathRealm(req[r].path)
                                              /\ rl.id = p.realm_id
                        THEN \E q \in prompts' :
                                /\ q.is_deleted
                                /\ [q EXCEPT !.is_deleted = p.is_deleted,
                                             !.deleted_by = p.deleted_by] = p
                        ELSE p \in prompts'
          /\ \A p \in prompts :
                NamesDeleted(r, p) =>
                    /\ (Returns(r, "get_prompt") /\ resp'[r].status = "200") =>
                           resp'[r].body = {}
                    /\ Returns(r, "update_prompt") =>
                           resp'[r].status = "404" /\ prompts' = prompts
                    /\ Returns(r, "analyze_food") =>
                           resp'[r].status = "404" /\ analyses' = analyses
          /\ (Returns(r, "get_prompts") /\ resp'[r].status = "200"
                /\ ~req[r].include_deleted) =>
                \A p \in resp'[r].body : ~p.is_deleted]_vars

\* Prompt 90 was soft-deleted under its realm and a later get_prompt found nothing
C30_Witness ==
    \E r, q \in Reqs :
        /\ req[r].op = "delete_prompt" /\ pc[r] = "done" /\ resp[r].status = "200"
        /\ req[r].prompt_id = Some(90) /\ PathRealm(req[r].path) = "master"
        /\ \E p \in prompts : p.id = 90 /\ p.is_deleted
        /\ req[q].op = "get_prompt" /\ pc[q] = "done" /\ resp[q].status = "200"
        /\ req[q].prompt_id = Some(90) /\ PathRealm(req[q].path) = "master"
        /\ resp[q].body = {}

====
